---------------------------- MODULE Spec2Model ----------------------------
(***************************************************************************)
(* A model of the netclient synchronization handlers                       *)
(* (functions/mqhandlers.go) and of the peer proxy registration            *)
(* (nm-proxy/peer/peer.go).                                                *)
(*                                                                         *)
(* The specifications of the module:                                       *)
(*   SpecProxy  - AddNewPeer / SetPeersEndpointToProxy on the proxy        *)
(*                registry;                                                *)
(*   SpecDetect - handleEndpointDetection and its probe tasks;             *)
(*   SpecNode   - the handler NodeUpdate;                                  *)
(*   SpecPeers  - the handler HostPeerUpdate;                              *)
(*   SpecHost   - the handler HostUpdate;                                  *)
(*   SpecFallback, SpecFallbackLive - the reconciler mqFallback, the       *)
(*                second with the fairness of its select and its pulls;    *)
(*   SpecSync   - the handlers and the reconciler on one configuration;    *)
(*   SpecApply, SpecApplyLive - the application of a peer list step by     *)
(*                step, with the detection and the probes it starts;       *)
(*   SpecRace   - two NodeUpdate handlers run at once.                     *)
(***************************************************************************)
EXTENDS Integers, Sequences, FiniteSets, TLC

NIL == "nil"

(***************************************************************************)
(* net.IP: a byte sequence of length 4 or 16; the nil IP is the empty one. *)
(***************************************************************************)
NilIP == <<>>

V4(a, b, c, d) == <<a, b, c, d>>

\* a 16-byte address given by its first two bytes and its last byte
V6(b0, b1, last) == <<b0, b1, 0, 0, 0, 0, 0, 0, 0, 0, 0, 0, 0, 0, 0, last>>

\* the IPv4-mapped IPv6 form ::ffff:a.b.c.d
V4in6(a, b, c, d) == <<0, 0, 0, 0, 0, 0, 0, 0, 0, 0, 255, 255, a, b, c, d>>

\* net.IP.To4: the 4-byte form of an IPv4 or IPv4-mapped address, else nil
To4(ip) ==
    IF Len(ip) = 4 THEN ip
    ELSE IF Len(ip) = 16
            /\ \A i \in 1..10 : ip[i] = 0
            /\ ip[11] = 255 /\ ip[12] = 255
         THEN <<ip[13], ip[14], ip[15], ip[16]>>
         ELSE NilIP

\* net.IP.IsMulticast: 224.0.0.0/4 or ff00::/8
IsMulticast(ip) ==
    IF To4(ip) # NilIP THEN To4(ip)[1] \div 16 = 14
    ELSE Len(ip) = 16 /\ ip[1] = 255

\* net.IP.IsLinkLocalUnicast: 169.254.0.0/16 or fe80::/10
IsLinkLocalUnicast(ip) ==
    IF To4(ip) # NilIP THEN To4(ip)[1] = 169 /\ To4(ip)[2] = 254
    ELSE Len(ip) = 16 /\ ip[1] = 254 /\ ip[2] \div 64 = 2

\* net.IP.IsLoopback: 127.0.0.0/8 or ::1
IsLoopback(ip) ==
    IF To4(ip) # NilIP THEN To4(ip)[1] = 127
    ELSE Len(ip) = 16 /\ (\A i \in 1..15 : ip[i] = 0) /\ ip[16] = 1

\* net.IP.IsPrivate: 10/8, 172.16/12, 192.168/16 or fc00::/7
IsPrivate(ip) ==
    IF To4(ip) # NilIP
    THEN \/ To4(ip)[1] = 10
         \/ To4(ip)[1] = 172 /\ To4(ip)[2] \div 16 = 1
         \/ To4(ip)[1] = 192 /\ To4(ip)[2] = 168
    ELSE Len(ip) = 16 /\ ip[1] \div 2 = 126

\* strings.Contains(ip.String(), "127.0.0."): String() prints the dotted form
\* exactly for addresses with a 4-byte form, and the text "127.0.0." can only
\* sit on the first three octets
StringHas127(ip) ==
    To4(ip) # NilIP /\ To4(ip)[1] = 127 /\ To4(ip)[2] = 0 /\ To4(ip)[3] = 0

\* strings.Count(ip.String(), ":") >= 2: the colon form is printed exactly for
\* 16-byte addresses without a 4-byte form, and always has two colons or more
StringHasColons(ip) == Len(ip) = 16 /\ To4(ip) = NilIP


(***************************************************************************)
(* Optional values (Go pointers): None is the nil pointer.                 *)
(***************************************************************************)
None == <<>>

Some(x) == <<x>>

Val(o) == o[1]

(***************************************************************************)
(* nm-proxy/peer/peer.go                                                   *)
(***************************************************************************)
\* the proxy's well-known port (models.NmProxyPort)
NmProxyPort == 51722

\* time.Second * 25, in seconds
DefaultKeepalive == 25

\* the number of proxy datapaths AddNewPeer may start in one behaviour
MaxProxies == 2

\* a keepalive interval a caller sets itself, in seconds
CallerKeepalive == 10

\* the port a peer advertises for itself
PeerListenPort == 51821

ProxyNetworks == {"netA", "netB"}

PeerKeys == {"k1", "k2"}

UDPAddr(ip, port) == [IP |-> ip, Port |-> port]

\* the nil *net.UDPAddr a failed resolution returns
NilAddr == UDPAddr(NilIP, 0)

\* the endpoint each peer advertises: k1 an IPv4 one, k2 an IPv6 one
PeerEndpointOf(k) ==
    IF k = "k1" THEN UDPAddr(V4(203, 0, 113, 1), PeerListenPort)
    ELSE UDPAddr(V6(32, 1, 7), PeerListenPort)

\* the relay target a caller may pass
RelayAddr == UDPAddr(V4(198, 51, 100, 9), PeerListenPort)

\* the wgtypes.PeerConfig of each peer, as handed to AddNewPeer: k2 comes with
\* a keepalive interval, k1 without. Endpoint is never nil here (the
\* callers give an endpoint; a nil one panics at peer.Endpoint.IP).
PeerConfigOf(k) ==
    [ PublicKey |-> k, Endpoint |-> PeerEndpointOf(k),
      PersistentKeepaliveInterval |-> IF k = "k2" THEN Some(CallerKeepalive) ELSE None ]

InPeerConfigs == { PeerConfigOf(k) : k \in PeerKeys }

VARIABLES
    ProxyStatus,     \* config.GetGlobalCfg().ProxyStatus
    networkPeerMap,  \* network-keyed registry: <<network, key>> -> Conn
    peerHashMap,     \* hash-keyed registry: hash -> RemotePeer
    extClients,      \* external-client records: endpoint -> RemotePeer
    proxies,         \* the datapaths started so far: id -> [network, key, closed]
    pcall            \* the last call on the proxy layer and what it returned

proxyVars == <<ProxyStatus, networkPeerMap, peerHashMap, extClients, proxies, pcall>>

\* peer.go:20-23: the keepalive interval, defaulted when the caller left it unset
KeepaliveBroken(ka) == ka

KeepaliveOrDefault(ka) == IF ka = None THEN Some(DefaultKeepalive) ELSE ka

\* peer.go:34-38: the port of the effective endpoint
PeerPort(peer, isExtClient, isAttachedExtClient) ==
    IF isExtClient /\ isAttachedExtClient THEN peer.Endpoint.Port ELSE NmProxyPort

\* peer.go:40-44: a relayed peer needs a relay target
RelayTargetUnchecked(isRelayed, relayTo) == FALSE

RelayTargetMissing(isRelayed, relayTo) == isRelayed /\ relayTo = None

\* peer.go:39-46: the IP of the effective endpoint
PeerEndpointIP(peer, isRelayed, relayTo) ==
    IF isRelayed /\ relayTo # None THEN Val(relayTo).IP ELSE peer.Endpoint.IP

\* peer.go:47: net.ResolveUDPAddr("udp", fmt.Sprintf("%s:%d", ip, port)).
\* Only a dotted IPv4 text splits into host and port: the colon form of an IPv6
\* address is not bracketed ("too many colons"), and the nil IP prints "<nil>",
\* which is no address.
ResolveUDPAddr(ip, port) ==
    IF To4(ip) # NilIP
    THEN [err |-> FALSE, addr |-> UDPAddr(To4(ip), port)]
    ELSE [err |-> TRUE, addr |-> NilAddr]

\* the local socket address of datapath number id (set by p.Start)
LocalAddrOf(id) == UDPAddr(V4(127, 0, 0, id), NmProxyPort)

\* models.ConvPeerKeyToHash: the hash of a peer key
ConvPeerKeyToHash(key) == "h:" \o key

\* peer.go:40-57: what AddNewPeer returns
AddNewPeerRet(peer, isRelayed, isExtClient, isAttachedExtClient, relayTo, startOk) ==
    IF RelayTargetMissing(isRelayed, relayTo) THEN "relay endpoint is nil"
    ELSE IF ResolveUDPAddr(PeerEndpointIP(peer, isRelayed, relayTo),
                           PeerPort(peer, isExtClient, isAttachedExtClient)).err
         THEN "resolve error"
         ELSE IF ~startOk THEN "start error" ELSE "ok"

\* peer.go:43,49,56: every error return comes before the registry is written
RegistersAnyway(ret) == TRUE

Registers(ret) == ret = "ok"

\* peer.go:24-32,51: the ProxyConfig of the new proxy
ProxyConfigOf(network, peer, isExtClient, peerEndpoint, id) ==
    [ RemoteKey           |-> peer.PublicKey,
      IsExtClient         |-> isExtClient,
      PeerConf            |-> [peer EXCEPT !.PersistentKeepaliveInterval =
                                   KeepaliveOrDefault(peer.PersistentKeepaliveInterval)],
      PersistentKeepalive |-> KeepaliveOrDefault(peer.PersistentKeepaliveInterval),
      Network             |-> network,
      PeerEndpoint        |-> peerEndpoint,
      LocalConnAddr       |-> LocalAddrOf(id) ]

\* peer.go:59-69: the Connection; Proxy names the datapath its StopConn and
\* ResetConn act on
ConnOf(network, peer, isRelayed, isExtClient, isAttachedExtClient, relayTo, peerEndpoint, id) ==
    [ Key                 |-> peer.PublicKey,
      IsRelayed           |-> isRelayed,
      RelayedEndpoint     |-> relayTo,
      IsAttachedExtClient |-> isAttachedExtClient,
      Config              |-> ProxyConfigOf(network, peer, isExtClient, peerEndpoint, id),
      Proxy               |-> id,
      LocalConn           |-> LocalAddrOf(id) ]

\* peer.go:70-77: the RemotePeer
RemotePeerOf(peer, isExtClient, isAttachedExtClient, peerEndpoint, id) ==
    [ Interface           |-> "netmaker",
      PeerKey             |-> peer.PublicKey,
      IsExtClient         |-> isExtClient,
      Endpoint            |-> peerEndpoint,
      IsAttachedExtClient |-> isAttachedExtClient,
      LocalConn           |-> LocalAddrOf(id) ]

\* f with the value v at key k, added or replaced
Put(f, k, v) == [x \in DOMAIN f \cup {k} |-> IF x = k THEN v ELSE f[x]]

\* config.SavePeer: the entry of the peer under its network, replaced whole
SavePeer(m, network, conn) == Put(m, <<network, conn.Key>>, conn)

\* config.SavePeerByHash
SavePeerByHash(m, rPeer) == Put(m, ConvPeerKeyToHash(rPeer.PeerKey), rPeer)

\* config.SaveExtClientInfo: kept under the endpoint of the client
SaveExtClientInfo(m, rPeer) == Put(m, rPeer.Endpoint, rPeer)

\* config.GetPeer
GetPeerFound(network, key) == <<network, key>> \in DOMAIN networkPeerMap

GetPeer(network, key) == networkPeerMap[<<network, key>>]

\* peer.go:18-85
AddNewPeer(network, peer, isRelayed, isExtClient, isAttachedExtClient, relayTo, startOk) ==
    LET ret == AddNewPeerRet(peer, isRelayed, isExtClient, isAttachedExtClient, relayTo, startOk)
        res == ResolveUDPAddr(PeerEndpointIP(peer, isRelayed, relayTo),
                              PeerPort(peer, isExtClient, isAttachedExtClient))
        id  == Len(proxies) + 1
        started == ret \in {"ok"}
        conn  == ConnOf(network, peer, isRelayed, isExtClient, isAttachedExtClient,
                        relayTo, res.addr, id)
        rPeer == RemotePeerOf(peer, isExtClient, isAttachedExtClient, res.addr, id)
    IN  /\ Len(proxies) < MaxProxies
        /\ pcall' = [ op |-> "AddNewPeer", ret |-> ret, network |-> network,
                      peer |-> peer, isRelayed |-> isRelayed, relayTo |-> relayTo,
                      in |-> <<>>, out |-> <<>> ]
        \* p.Start(): a datapath runs from here on; nothing in AddNewPeer stops one
        /\ proxies' = IF started
                      THEN Append(proxies, [network |-> network, key |-> peer.PublicKey,
                                            closed |-> FALSE])
                      ELSE proxies
        /\ IF Registers(ret)
           THEN /\ networkPeerMap' = SavePeer(networkPeerMap, network, conn)
                /\ peerHashMap' = SavePeerByHash(peerHashMap, rPeer)
                /\ extClients' = IF isAttachedExtClient
                                 THEN SaveExtClientInfo(extClients, rPeer)
                                 ELSE extClients
           ELSE UNCHANGED <<networkPeerMap, peerHashMap, extClients>>
        /\ UNCHANGED ProxyStatus

\* peer.go:92-97: the endpoint of one peer of the list
ProxiedEndpoint(network, p) ==
    IF GetPeerFound(network, p.PublicKey)
    THEN GetPeer(network, p.PublicKey).Config.LocalConnAddr
    ELSE p.Endpoint

\* no peer: the peer of a call that has none
NoPeer == [PublicKey |-> "", Endpoint |-> NilAddr, PersistentKeepaliveInterval |-> None]

\* peer.go:87-99: the peer list SetPeersEndpointToProxy returns
RewrittenPeersStatusIgnored(network, peers) ==
    [i \in 1..Len(peers) |-> [peers[i] EXCEPT !.Endpoint = ProxiedEndpoint(network, peers[i])]]

RewrittenPeers(network, peers) ==
    IF ~ProxyStatus THEN peers
    ELSE [i \in 1..Len(peers) |-> [peers[i] EXCEPT !.Endpoint = ProxiedEndpoint(network, peers[i])]]

\* the peer lists handed to SetPeersEndpointToProxy
OutPeerLists ==
    {<<PeerConfigOf("k1")>>, <<PeerConfigOf("k2"), PeerConfigOf("k1")>>}

SetPeersEndpointToProxy(network, peers) ==
    /\ pcall' = [ op |-> "SetPeersEndpointToProxy", ret |-> "ok", network |-> network,
                  peer |-> NoPeer, isRelayed |-> FALSE, relayTo |-> None,
                  in |-> peers, out |-> RewrittenPeers(network, peers) ]
    /\ UNCHANGED <<ProxyStatus, networkPeerMap, peerHashMap, extClients, proxies>>

EmptyMap == [x \in {} |-> 0]

NoCall == [ op |-> "none", ret |-> "ok", network |-> "", peer |-> NoPeer,
            isRelayed |-> FALSE, relayTo |-> None, in |-> <<>>, out |-> <<>> ]

InitProxy ==
    /\ ProxyStatus \in BOOLEAN
    /\ networkPeerMap = EmptyMap
    /\ peerHashMap = EmptyMap
    /\ extClients = EmptyMap
    /\ proxies = <<>>
    /\ pcall = NoCall

DoAddNewPeer ==
    \E network \in ProxyNetworks, peer \in InPeerConfigs,
       isRelayed \in BOOLEAN, isExtClient \in BOOLEAN, isAttachedExtClient \in BOOLEAN,
       relayTo \in {None, Some(RelayAddr)}, startOk \in BOOLEAN :
        AddNewPeer(network, peer, isRelayed, isExtClient, isAttachedExtClient, relayTo, startOk)

DoSetPeersEndpointToProxy ==
    \E network \in ProxyNetworks, peers \in OutPeerLists :
        SetPeersEndpointToProxy(network, peers)

NextProxy == DoAddNewPeer \/ DoSetPeersEndpointToProxy



(***************************************************************************)
(* functions/mqhandlers.go: endpoint detection                             *)
(***************************************************************************)
\* handleEndpointDetection is run while fewer probe tasks than this are running
MaxProbes == 1

\* net.IPNet: a network number and the number of leading ones of its mask
CIDR(ip, bits) == [IP |-> ip, Bits |-> bits]

\* 2^n for n in 0..8
Pow2(n) == CASE n = 0 -> 1 [] n = 1 -> 2 [] n = 2 -> 4 [] n = 3 -> 8 [] n = 4 -> 16
             [] n = 5 -> 32 [] n = 6 -> 64 [] n = 7 -> 128 [] OTHER -> 256

\* the number of mask bits that fall on byte i (1-based) of a mask of `bits` ones
MaskBitsOn(bits, i) ==
    IF bits >= 8 * i THEN 8 ELSE IF bits <= 8 * (i - 1) THEN 0 ELSE bits - 8 * (i - 1)

\* b & m for the mask byte m with k leading ones
MaskedByte(b, k) == (b \div Pow2(8 - k)) * Pow2(8 - k)

\* net.IPNet.Contains: both sides in their shortest form, of equal length, and
\* equal under the mask
Contains(n, ip) ==
    LET nn == IF To4(n.IP) # NilIP THEN To4(n.IP) ELSE n.IP
        x  == IF To4(ip) # NilIP THEN To4(ip) ELSE ip
    IN  /\ Len(x) = Len(nn)
        /\ \A i \in 1..Len(x) :
             MaskedByte(nn[i], MaskBitsOn(n.Bits, i)) = MaskedByte(x[i], MaskBitsOn(n.Bits, i))

\* net.IP.String, as the bytes of the address in its shortest form: the
\* IPv4-mapped form prints like the IPv4 address
IPString(ip) == IF To4(ip) # NilIP THEN To4(ip) ELSE ip

\* the sequence s flattened: the concatenation of its elements
RECURSIVE Flatten(_)
Flatten(s) == IF s = <<>> THEN <<>> ELSE Head(s) \o Flatten(Tail(s))

\* mqhandlers.go:360-371
getAllAllowedIPs(peers) == Flatten([i \in 1..Len(peers) |-> peers[i].AllowedIPs])

\* mqhandlers.go:373-383
isAddressInPeers(ip, cidrs) == \E i \in 1..Len(cidrs) : Contains(cidrs[i], ip)

\* ncutils.IsBridgeNetwork
IsBridgeNetwork(name) == name \in {"br-lan", "docker0"}

\* mqhandlers.go:318-323: the addresses no probe is spent on
SkippedAddressRoutesIgnored(peerIP, currentCidrs) ==
    \/ StringHas127(peerIP)
    \/ IsMulticast(peerIP)
    \/ (IsLinkLocalUnicast(peerIP) /\ StringHasColons(peerIP))

SkippedAddress(peerIP, currentCidrs) ==
    \/ StringHas127(peerIP)
    \/ IsMulticast(peerIP)
    \/ (IsLinkLocalUnicast(peerIP) /\ StringHasColons(peerIP))
    \/ isAddressInPeers(peerIP, currentCidrs)

\* mqhandlers.go:308-334: whether interface i of a peer gets a probe
ProbesInterface(peerIface, currentCidrs) ==
    /\ peerIface.Address.IP # NilIP
    /\ ~IsBridgeNetwork(peerIface.Name)
    /\ ~SkippedAddress(peerIface.Address.IP, currentCidrs)
    /\ IsPrivate(peerIface.Address.IP)

\* mqhandlers.go:300-307: whether the interfaces of a peer are looked at
ExaminesPeer(peerPubKey, peerInfo, known) ==
    /\ peerPubKey \notin known
    /\ peerPubKey \in DOMAIN peerInfo
    /\ ~peerInfo[peerPubKey].IsStatic

\* the elements of s that satisfy Keep, in order
RECURSIVE SelectIfaces(_, _)
SelectIfaces(ifaces, currentCidrs) ==
    IF ifaces = <<>> THEN <<>>
    ELSE (IF ProbesInterface(Head(ifaces), currentCidrs) THEN <<Head(ifaces)>> ELSE <<>>)
            \o SelectIfaces(Tail(ifaces), currentCidrs)

\* mqhandlers.go:325-331: the probe tasks launched for one peer, in order
ProbesOfPeer(peerPubKey, peerInfo, known, currentCidrs) ==
    IF ExaminesPeer(peerPubKey, peerInfo, known)
    THEN LET sel == SelectIfaces(peerInfo[peerPubKey].Interfaces, currentCidrs)
         IN  [i \in 1..Len(sel) |->
                [ peerIP     |-> IPString(sel[i].Address.IP),
                  peerPubKey |-> peerPubKey,
                  listenPort |-> peerInfo[peerPubKey].ListenPort ]]
    ELSE <<>>

\* mqhandlers.go:296-337: the probe tasks one call launches, in order
LaunchedProbes(peers, peerInfo, known) ==
    Flatten([idx \in 1..Len(peers) |->
                ProbesOfPeer(peers[idx].PublicKey, peerInfo, known, getAllAllowedIPs(peers))])

Range(s) == {s[i] : i \in 1..Len(s)}

VARIABLES
    detected,   \* the peers wireguard.EndpointDetectedAlready answers true for
    probes,     \* the probe tasks (networking.FindBestEndpoint) that are running
    dcall       \* the last call of handleEndpointDetection: its input and its launches

detectVars == <<detected, probes, dcall>>

\* ---- the inputs of handleEndpointDetection
AddrLoopback    == V4(127, 0, 0, 1)
AddrLoopbackAlt == V4(127, 1, 2, 3)
AddrLoopback6   == V6(0, 0, 1)
AddrMulticast   == V4(224, 0, 0, 251)
AddrMulticast6  == V6(255, 2, 1)
AddrLinkLocal   == V4(169, 254, 10, 10)
AddrLinkLocal6  == V6(254, 128, 1)
AddrPublic      == V4(8, 8, 8, 8)
AddrPublic6     == V6(32, 1, 1)
AddrPrivate10   == V4(10, 0, 0, 5)
AddrPrivate172  == V4(172, 16, 3, 4)
AddrPrivate192  == V4(192, 168, 1, 10)
AddrPrivate6    == V6(253, 0, 1)
AddrMapped10    == V4in6(10, 0, 0, 5)

IfaceAddrs ==
    { NilIP, AddrLoopback, AddrLoopbackAlt, AddrLoopback6, AddrMulticast, AddrMulticast6,
      AddrLinkLocal, AddrLinkLocal6, AddrPublic, AddrPublic6, AddrPrivate10,
      AddrPrivate172, AddrPrivate192, AddrPrivate6, AddrMapped10 }

Iface(name, ip) == [Name |-> name, Address |-> [IP |-> ip]]

\* the interface lists a host reports: none, one interface, or two
IfaceLists ==
    {<<>>}
      \cup {<<Iface("eth0", ip)>> : ip \in IfaceAddrs}
      \cup { <<Iface("br-lan", AddrPrivate192)>>,
             <<Iface("docker0", AddrPrivate172)>>,
             <<Iface("eth0", AddrPrivate172), Iface("eth1", AddrPrivate10)>>,
             <<Iface("eth0", AddrLoopback), Iface("eth1", AddrPrivate172)>>,
             <<Iface("eth0", AddrPrivate10), Iface("br-lan", AddrPrivate192)>>,
             <<Iface("eth0", AddrPrivate10), Iface("eth1", AddrMapped10)>> }

\* the interface lists of a host that the server flags static
StaticIfaceLists ==
    { <<Iface("eth0", AddrPrivate10)>>,
      <<Iface("eth0", AddrPrivate172), Iface("eth1", AddrPrivate10)>> }

DetectKeys == {"k1", "k2"}

ListenPortOf(k) == IF k = "k1" THEN 51821 ELSE 51822

\* models.HostInfoMap: k1 with any of the interface lists, static or not, k2
\* with one private interface, each of them with or without an entry
HostInfoMaps ==
    LET I1 == {[IsStatic |-> FALSE, ListenPort |-> ListenPortOf("k1"), Interfaces |-> l] :
                  l \in IfaceLists}
              \cup {[IsStatic |-> TRUE, ListenPort |-> ListenPortOf("k1"), Interfaces |-> l] :
                      l \in StaticIfaceLists}
        I2 == {[IsStatic |-> FALSE, ListenPort |-> ListenPortOf("k2"),
                Interfaces |-> <<Iface("eth0", AddrPrivate192)>>]}
    IN  {EmptyMap}
          \cup {[k \in {"k1"} |-> i1] : i1 \in I1}
          \cup {[k \in {"k2"} |-> i2] : i2 \in I2}
          \cup UNION {{[k \in DetectKeys |-> IF k = "k1" THEN i1 ELSE i2] : i1 \in I1} : i2 \in I2}

DetectPeer(k, allowed) == [PublicKey |-> k, AllowedIPs |-> allowed]

\* the peer lists of an update, with the ranges each peer advertises
DetectPeerLists ==
    { <<>>,
      <<DetectPeer("k1", <<CIDR(V4(10, 0, 0, 0), 24)>>)>>,
      <<DetectPeer("k1", <<>>), DetectPeer("k2", <<>>)>>,
      <<DetectPeer("k2", <<CIDR(V4(172, 16, 0, 0), 12), CIDR(V6(253, 0, 0), 64)>>),
        DetectPeer("k1", <<CIDR(V4(10, 1, 0, 0), 16)>>)>>,
      <<DetectPeer("k1", <<>>), DetectPeer("k1", <<CIDR(V4(192, 168, 1, 10), 32)>>)>> }

NoDetectCall == [peers |-> <<>>, peerInfo |-> EmptyMap, known |-> {}, launched |-> <<>>]

InitDetect ==
    /\ detected = {}
    /\ probes = {}
    /\ dcall = NoDetectCall

\* mqhandlers.go:296-337
handleEndpointDetection(peers, peerInfo) ==
    /\ Cardinality(probes) < MaxProbes
    /\ dcall' = [peers |-> peers, peerInfo |-> peerInfo, known |-> detected,
                 launched |-> LaunchedProbes(peers, peerInfo, detected)]
    /\ probes' = probes \cup Range(dcall'.launched)
    /\ UNCHANGED detected

\* networking.FindBestEndpoint: a probe task ends, having found the peer at
\* the address it probed or not
FindBestEndpoint(t, found) ==
    /\ t \in probes
    /\ probes' = probes \ {t}
    /\ detected' = IF found THEN detected \cup {t.peerPubKey} ELSE detected
    /\ UNCHANGED dcall

DoHandleEndpointDetection ==
    \E peers \in DetectPeerLists, peerInfo \in HostInfoMaps :
        handleEndpointDetection(peers, peerInfo)

DoFindBestEndpoint == \E t \in probes, found \in BOOLEAN : FindBestEndpoint(t, found)

NextDetect == DoHandleEndpointDetection \/ DoFindBestEndpoint

(***************************************************************************)
(* functions/mqhandlers.go: the message handlers                           *)
(***************************************************************************)
MQNetworks == {"n1", "n2"}

Servers == {"s1", "s2"}

VARIABLES
    nodes,         \* config.Nodes: network -> Node, for the networks joined
    servers,       \* config.Servers: server name -> server record
    messageCache,  \* the last-message cache: network -> last node-update payload
    hostPeers,     \* config.Netclient().HostPeers, as merged by UpdateHostPeers
    host,          \* config.Netclient().Host
    lastPeerUpdate,\* history: server -> payload of the last peer update delivered for it
    msg,           \* the message the last handler invocation was given, whether it
                   \* repeats the previous one (dup), and the effect flags the
                   \* invocation raised (flags)
    calls          \* the collaborator calls the last handler invocation made, in
                   \* order; for HostUpdate also the errors it logged

mqVars == <<nodes, servers, messageCache, hostPeers, host, lastPeerUpdate, msg, calls>>

\* the zero config.Node, which config.GetNode returns for a network not joined
ZeroNode == [Network |-> "", Server |-> "", Settings |-> 0, Action |-> ""]

\* config.GetNode
GetNode(network) == IF network \in DOMAIN nodes THEN nodes[network] ELSE ZeroNode

\* config.GetServer: found or nil
ServerFound(name) == name \in DOMAIN servers

\* f without the key k
Drop(f, k) == [x \in DOMAIN f \ {k} |-> f[x]]

\* the empty payload text, which read returns for a network without an entry
NoData == ZeroNode

\* read(network, lastNodeUpdate)
read(network) == messageCache[network]

\* insert(network, lastNodeUpdate, data)
insert(network, data) == [messageCache EXCEPT ![network] = data]

\* decryptMsg: needs the record of the server, and may fail on the payload
DecryptFails(serverName, faults) == ~ServerFound(serverName) \/ "decrypt" \in faults

\* wireguard.IfaceDelta: whether the interface settings of the node change
IfaceDelta(node, newNode) == node.Settings # newNode.Settings

\* models.NODE_DELETE, NODE_FORCE_UPDATE, NODE_NOOP
NODE_DELETE == "delete"
NODE_FORCE_UPDATE == "force-update"
NODE_NOOP == "noop"

\* mqhandlers.go:50-55: the cache check
CacheHitNever(currentMessage, data) == FALSE

CacheHit(currentMessage, data) == currentMessage = data

\* LeaveNetwork: the node and its entry in the server record are removed
LeaveNetworkNodes(network) == Drop(nodes, network)

LeaveNetworkServers(network) ==
    [s \in DOMAIN servers |-> [servers[s] EXCEPT !.Nodes = @ \ {network}]]

\* config.UpdateNodeMap
UpdateNodeMap(network, node) == Put(nodes, network, node)

\* mqhandlers.go:32-98: the calls NodeUpdate makes for a payload that passed
\* the cache check
NodeUpdateCallsSignalsAlways(newNode, ifaceDelta, faults) ==
    IF newNode.Action = NODE_DELETE
    THEN <<"unsubscribeNode", "LeaveNetwork">>
    ELSE <<"UpdateNodeMap", "WriteNodeConfig", "Configure", "publishSignal DONE">>

NodeUpdateCalls(newNode, ifaceDelta, faults) ==
    IF newNode.Action = NODE_DELETE
    THEN <<"unsubscribeNode", "LeaveNetwork">>
    ELSE <<"UpdateNodeMap", "WriteNodeConfig", "Configure">>
            \o (IF "configure" \notin faults
                   /\ (ifaceDelta \/ newNode.Action = NODE_FORCE_UPDATE)
                THEN <<"publishSignal DONE">> ELSE <<>>)

\* mqhandlers.go:56: the payload goes into the cache right after the cache
\* check, before the switch on the action and before anything is applied
CacheAfterCheckOnSuccess(newNode, data, faults) ==
    IF faults \cap {"leave", "configure"} # {} THEN messageCache
    ELSE insert(newNode.Network, data)

CacheAfterCheck(newNode, data, faults) == insert(newNode.Network, data)

\* mqhandlers.go:32-98
NodeUpdate(network, data, faults) ==
    LET node    == GetNode(network)
        newNode == data
        currentMessage == read(newNode.Network)
        ifaceDelta == IfaceDelta(node, newNode)
    IN  /\ msg' = [kind |-> "node", topic |-> network, data |-> data, faults |-> faults,
                   dup |-> FALSE, flags |-> {}]
        /\ UNCHANGED <<hostPeers, host, lastPeerUpdate>>
        /\ IF DecryptFails(node.Server, faults) \/ "unmarshal" \in faults
           THEN /\ calls' = <<>>
                /\ UNCHANGED <<nodes, servers, messageCache>>
           ELSE IF CacheHit(currentMessage, data)
           THEN /\ calls' = <<>>
                /\ UNCHANGED <<nodes, servers, messageCache>>
           ELSE /\ messageCache' = CacheAfterCheck(newNode, data, faults)
                /\ calls' = NodeUpdateCalls(newNode, ifaceDelta, faults)
                /\ IF newNode.Action = NODE_DELETE
                   THEN IF "leave" \in faults
                        THEN UNCHANGED <<nodes, servers>>
                        ELSE /\ nodes' = LeaveNetworkNodes(newNode.Network)
                             /\ servers' = LeaveNetworkServers(newNode.Network)
                   ELSE /\ nodes' = UpdateNodeMap(network, [newNode EXCEPT !.Action = NODE_NOOP])
                        /\ UNCHANGED servers

\* the server each network belongs to
ServerOfNetwork(n) == IF n = "n1" THEN "s1" ELSE "s2"

\* the payloads of node updates: the node as the server has it
NodePayloads ==
    { [Network |-> n, Server |-> ServerOfNetwork(n), Settings |-> c, Action |-> a] :
        n \in MQNetworks, c \in {1, 2}, a \in {NODE_DELETE, NODE_FORCE_UPDATE, NODE_NOOP} }

\* what may go wrong in one NodeUpdate: nothing is listed that lies behind an
\* earlier abort
NodeFaults ==
    { {}, {"decrypt"}, {"unmarshal"}, {"leave"}, {"writeNode"}, {"configure"},
      {"writeNode", "configure"}, {"publish"}, {"writeNode", "publish"} }

DoNodeUpdate ==
    \E data \in NodePayloads, faults \in NodeFaults :
        NodeUpdate(data.Network, data, faults)

\* config.Version: the version of the running client
ClientVersion == "0.20.5"

\* the place of a semantic version in the order of versions; 0 for a text
\* that is no semantic version
VersionRank(v) ==
    CASE v = "0.19.0" -> 1 [] v = "0.20.5" -> 2 [] v = "0.21.0" -> 3 [] OTHER -> 0

\* versionLessThan: an error when a side is no semantic version
VersionLessThanErr(v1, v2) == VersionRank(v1) = 0 \/ VersionRank(v2) = 0

versionLessThan(v1, v2) == VersionRank(v1) < VersionRank(v2)

\* config.UpdateHostPeers: the peers of the update merged into the peer map
UpdateHostPeers(peers) ==
    (hostPeers \cup {peers[i].PublicKey : i \in {j \in 1..Len(peers) : ~peers[j].Remove}})
        \ {peers[i].PublicKey : i \in {j \in 1..Len(peers) : peers[j].Remove}}

\* mqhandlers.go:128-134: the version check that ends the invocation
VersionCheckAbortsNever(serverVersion) == FALSE

VersionCheckAborts(serverVersion) ==
    serverVersion # ClientVersion /\ VersionLessThanErr(ClientVersion, serverVersion)

\* mqhandlers.go:135-144: the automatic update of the client
AutoUpdateCalls(serverVersion, faults) ==
    IF /\ serverVersion # ClientVersion
       /\ versionLessThan(ClientVersion, serverVersion)
       /\ host.AutoUpdate
    THEN IF "useVersion" \in faults THEN <<"UseVersion">>
         ELSE <<"UseVersion", "daemon.HardRestart">>
    ELSE <<>>

\* mqhandlers.go:141-143: daemon.HardRestart replaces the process, and the
\* invocation ends with it, unless it fails and returns its error
HardRestartEnds(serverVersion, faults) ==
    /\ serverVersion # ClientVersion
    /\ versionLessThan(ClientVersion, serverVersion)
    /\ host.AutoUpdate
    /\ "useVersion" \notin faults
    /\ "hardRestart" \notin faults

\* mqhandlers.go:385-393
handleFwUpdateCalls(fwUpdate) ==
    IF fwUpdate.IsEgressGw THEN <<"firewall.SetEgressRoutes">>
    ELSE <<"firewall.DeleteEgressGwRoutes">>

\* mqhandlers.go:151-157: the merge of the peers and what is applied after it,
\* up to the go statement that starts the detection
ApplyUntilDetectionCalls(data) ==
    <<"UpdateHostPeers", "WriteNetclientConfig",
      IF data.ReplacePeers THEN "SetPeers(true)" ELSE "SetPeers(false)">>
        \o (IF Len(data.EgressRoutes) > 0 THEN <<"wireguard.SetEgressRoutes">> ELSE <<>>)
        \o <<"go handleEndpointDetection">>

\* mqhandlers.go:151-158: the merge of the peers and what is applied after it
ApplyPeersCallsWithoutSetPeers(data) ==
    <<"UpdateHostPeers", "WriteNetclientConfig">>
        \o (IF Len(data.EgressRoutes) > 0 THEN <<"wireguard.SetEgressRoutes">> ELSE <<>>)
        \o <<"go handleEndpointDetection">>
        \o handleFwUpdateCalls(data.FwUpdate)

ApplyPeersCalls(data) ==
    ApplyUntilDetectionCalls(data) \o handleFwUpdateCalls(data.FwUpdate)

\* mqhandlers.go:146-150: the version stored for the server of the update
PersistVersionCallsAlways(serverName, declared) == <<"WriteServerConfig">>

PersistVersionCalls(serverName, declared) ==
    IF declared # servers[serverName].Version THEN <<"WriteServerConfig">> ELSE <<>>

StoredVersion(serverName, declared) ==
    IF declared # servers[serverName].Version THEN declared ELSE servers[serverName].Version

\* mqhandlers.go:101-127: the checks a peer update must pass to be looked at
PeerUpdateDropped(serverName, faults) ==
    \/ DOMAIN nodes = {}
    \/ ~ServerFound(serverName)
    \/ DecryptFails(serverName, faults)
    \/ "unmarshal" \in faults

\* mqhandlers.go:101-159
HostPeerUpdate(serverName, data, faults) ==
    /\ msg' = [kind |-> "peers", topic |-> serverName, data |-> data, faults |-> faults,
               dup |-> serverName \in DOMAIN lastPeerUpdate
                        /\ lastPeerUpdate[serverName] = data,
               flags |-> {}]
    /\ lastPeerUpdate' = Put(lastPeerUpdate, serverName, data)
    /\ UNCHANGED <<nodes, messageCache, host>>
    /\ IF PeerUpdateDropped(serverName, faults) \/ VersionCheckAborts(data.ServerVersion)
       THEN /\ calls' = <<>>
            /\ UNCHANGED <<servers, hostPeers>>
       ELSE IF HardRestartEnds(data.ServerVersion, faults)
       THEN /\ calls' = AutoUpdateCalls(data.ServerVersion, faults)
            /\ UNCHANGED <<servers, hostPeers>>
       ELSE /\ servers' = [servers EXCEPT ![serverName].Version =
                                StoredVersion(serverName, data.ServerVersion)]
            /\ hostPeers' = UpdateHostPeers(data.Peers)
            /\ calls' = AutoUpdateCalls(data.ServerVersion, faults)
                          \o PersistVersionCalls(serverName, data.ServerVersion)
                          \o ApplyPeersCalls(data)

PeerCfg(k, remove) == [PublicKey |-> k, Remove |-> remove]

\* the payloads of peer updates
PeerPayloads ==
    { [ ServerVersion |-> v, Peers |-> <<PeerCfg("p1", FALSE), PeerCfg("p2", FALSE)>>,
        ReplacePeers |-> TRUE, EgressRoutes |-> <<"10.9.0.0/24">>,
        FwUpdate |-> [IsEgressGw |-> TRUE] ] : v \in {"0.19.0", "0.20.5", "0.21.0", "dev"} }
      \cup
    { [ ServerVersion |-> v, Peers |-> <<PeerCfg("p2", TRUE)>>,
        ReplacePeers |-> FALSE, EgressRoutes |-> <<>>,
        FwUpdate |-> [IsEgressGw |-> FALSE] ] : v \in {"0.19.0", "0.20.5", "0.21.0", "dev"} }

\* the peer updates that arrive: any payload from s1, one from s2, one on a
\* topic of a server the host does not know
PeerUpdates ==
    { <<"s1", d>> : d \in PeerPayloads }
      \cup { <<sn, d>> : sn \in {"s2", "s3"},
                         d \in {x \in PeerPayloads : x.ServerVersion = "0.20.5" /\ x.ReplacePeers} }

PeerFaults == { {}, {"decrypt"}, {"unmarshal"}, {"useVersion"}, {"hardRestart"} }

DoHostPeerUpdate ==
    \E u \in PeerUpdates, faults \in PeerFaults : HostPeerUpdate(u[1], u[2], faults)

(***************************************************************************)
(* HostUpdate                                                              *)
(***************************************************************************)
\* models.HostMqAction: the actions HostUpdate has a case for
Upgrade == "UPGRADE"

JoinHostToNetwork == "JOIN_HOST_TO_NETWORK"

DeleteHost == "DELETE_HOST"

UpdateHost == "UPDATE_HOST"

RequestAck == "REQ_ACK"

SignalHost == "SIGNAL_HOST"

UpdateKeys == "UPDATE_KEYS"

RequestPull == "REQ_PULL"

\* an action of models.HostMqAction that HostUpdate has no case for
CheckIn == "CHECK_IN"

\* mqhandlers.go:186-266: the cases of the switch; anything else is the default
HostActionKnownAlways(action) == TRUE

HostActionKnown(action) ==
    action \in { Upgrade, JoinHostToNetwork, DeleteHost, UpdateHost, RequestAck,
                 SignalHost, UpdateKeys, RequestPull }

\* s repeated n times
RECURSIVE Repeat(_, _)
Repeat(s, n) == IF n = 0 THEN <<>> ELSE s \o Repeat(s, n - 1)

\* mqhandlers.go:341-348: the nodes deleteHostCfg leaves
deleteHostCfgKeepsNodes(server) == nodes

deleteHostCfgNodes(server) ==
    [k \in {n \in DOMAIN nodes : nodes[n].Server # server} |-> nodes[k]]

\* mqhandlers.go:339-350: the calls of deleteHostCfg, one unsubscribeNode and
\* one DeleteNode for each node of the server
deleteHostCfgCalls(server) ==
    <<"DeleteServerHostPeerCfg">>
        \o Repeat(<<"unsubscribeNode", "DeleteNode">>,
                  Cardinality({n \in DOMAIN nodes : nodes[n].Server = server}))
        \o <<"DeleteServer">>

\* config.DeleteServer
DeleteServer(server) == Drop(servers, server)

\* mqhandlers.go:187-212: the calls of the upgrade case
UpgradeCalls(sv, faults) ==
    <<"clearRetainedMsg">>
        \o (IF ~VersionLessThanErr(ClientVersion, sv) /\ ~versionLessThan(ClientVersion, sv)
            THEN <<>>
            ELSE IF "useVersion" \in faults
            THEN <<"UseVersion", "slog.Error(error upgrading client)">>
            ELSE IF "hardRestart" \in faults
            THEN <<"UseVersion", "daemon.HardRestart",
                   "slog.Error(failed to hard restart daemon)">>
            ELSE <<"UseVersion", "daemon.HardRestart">>)

\* mqhandlers.go:207-209: the hard restart of the upgrade case replaced the
\* process, and the invocation ended with it
UpgradeEnds(sv, hostUpdate, faults) ==
    /\ hostUpdate.Action = Upgrade
    /\ "daemon.HardRestart" \in Range(UpgradeCalls(sv, faults))
    /\ "hardRestart" \notin faults

\* mqhandlers.go:186-266: what the case of the action does to the
\* configuration, the calls it makes and the flags it raises. updateFlags is
\* what config.UpdateHost reports back.
Dispatch(serverName, hostUpdate, faults, updateFlags) ==
    LET same == [nodes |-> nodes, servers |-> servers, host |-> host, hostPeers |-> hostPeers,
                 calls |-> <<>>, flags |-> {}]
        a == hostUpdate.Action
    IN  CASE a = Upgrade ->
                [same EXCEPT !.calls = UpgradeCalls(servers[serverName].Version, faults)]
          [] a = JoinHostToNetwork ->
                [same EXCEPT
                   !.nodes = UpdateNodeMap(hostUpdate.Node.Network, hostUpdate.Node),
                   !.servers = [servers EXCEPT ![serverName].Nodes =
                                    @ \cup {hostUpdate.Node.Network}],
                   !.calls = <<"UpdateNodeMap", "UpdateServer", "WriteNodeConfig",
                               "WriteServerConfig", "clearRetainedMsg",
                               "PublishHostUpdate(ACK)", "setSubscriptions">>,
                   !.flags = {"resetInterface"}]
          [] a = DeleteHost ->
                [same EXCEPT
                   !.nodes = deleteHostCfgNodes(serverName),
                   !.servers = DeleteServer(serverName),
                   !.hostPeers = {},
                   !.calls = <<"clearRetainedMsg", "unsubscribeHost">>
                                \o deleteHostCfgCalls(serverName)
                                \o <<"WriteNodeConfig", "WriteServerConfig">>,
                   !.flags = {"restartDaemon"}]
          [] a = UpdateHost ->
                [same EXCEPT
                   !.host = [host EXCEPT !.Settings = hostUpdate.Host.Settings],
                   !.calls = <<"config.UpdateHost">>
                                \o (IF "sendHostUpdate" \in updateFlags
                                    THEN <<"PublishHostUpdate(UPDATE_HOST)">> ELSE <<>>),
                   !.flags = updateFlags \cup {"clearMsg"}]
          [] a = RequestAck ->
                [same EXCEPT !.calls = <<"clearRetainedMsg", "PublishHostUpdate(ACK)">>]
          [] a = SignalHost ->
                [same EXCEPT !.calls = <<"clearRetainedMsg", "processPeerSignal">>]
          [] a = UpdateKeys ->
                [same EXCEPT !.calls = <<"clearRetainedMsg", "UpdateKeys">>]
          [] a = RequestPull ->
                [same EXCEPT !.calls = <<"clearRetainedMsg", "Pull(true)">>]
          [] OTHER -> same

\* mqhandlers.go:267-292: what follows the switch
AfterDispatchCallsResetFirst(flags, faults) ==
    IF "writeNetclient" \in faults
    THEN <<"WriteNetclientConfig", "slog.Error(failed to write host config)">>
    ELSE <<"WriteNetclientConfig">> \o
         (IF "resetInterface" \in flags
          THEN <<"nc.Close", "NewNCIface", "nc.Create", "nc.Configure", "SetPeers(false)">>
          ELSE IF "restartDaemon" \in flags THEN <<"daemon.Restart">>
          ELSE <<>>)

AfterDispatchCalls(flags, faults) ==
    IF "writeNetclient" \in faults
    THEN <<"WriteNetclientConfig", "slog.Error(failed to write host config)">>
    ELSE <<"WriteNetclientConfig">> \o
         (IF "restartDaemon" \in flags
          THEN (IF "clearMsg" \in flags THEN <<"clearRetainedMsg">> ELSE <<>>)
                   \o <<"daemon.Restart">>
          ELSE IF "resetInterface" \in flags
          THEN <<"nc.Close", "NewNCIface", "nc.Create", "nc.Configure">>
                   \o (IF "configure" \in faults
                       THEN <<"slog.Error(could not configure netmaker interface)">>
                       ELSE <<"SetPeers(false)">>)
          ELSE <<>>)

\* mqhandlers.go:162-185: the message gets to the switch
ReachesDispatch(serverName, hostUpdate, faults) ==
    /\ ServerFound(serverName)
    /\ ~hostUpdate.Empty
    /\ ~DecryptFails(serverName, faults)
    /\ "unmarshal" \notin faults

\* mqhandlers.go:162-185, 263-266: the error logged for a message that is dropped
DroppedCalls(serverName, hostUpdate, faults) ==
    IF ~ServerFound(serverName) THEN <<"slog.Error(server not found in config)">>
    ELSE IF hostUpdate.Empty THEN <<>>
    ELSE IF DecryptFails(serverName, faults) THEN <<"slog.Error(error decrypting message)">>
    ELSE IF "unmarshal" \in faults
    THEN <<"slog.Error(error unmarshalling host update data)">>
    ELSE <<"slog.Error(unknown host action)">>

\* mqhandlers.go:162-293
HostUpdate(serverName, hostUpdate, faults, updateFlags) ==
    LET d == Dispatch(serverName, hostUpdate, faults, updateFlags)
        handled == /\ ReachesDispatch(serverName, hostUpdate, faults)
                   /\ HostActionKnown(hostUpdate.Action)
    IN  /\ msg' = [kind |-> "host", topic |-> serverName, data |-> hostUpdate,
                   faults |-> faults, dup |-> FALSE,
                   flags |-> IF handled THEN d.flags ELSE {}]
        /\ UNCHANGED <<messageCache, lastPeerUpdate>>
        /\ IF handled
           THEN /\ nodes' = d.nodes
                /\ servers' = d.servers
                /\ host' = d.host
                /\ hostPeers' = d.hostPeers
                /\ calls' = IF UpgradeEnds(servers[serverName].Version, hostUpdate, faults)
                            THEN d.calls
                            ELSE d.calls \o AfterDispatchCalls(d.flags, faults)
           ELSE /\ UNCHANGED <<nodes, servers, host, hostPeers>>
                /\ calls' = DroppedCalls(serverName, hostUpdate, faults)

\* the payload of a host update sent on the topic of the server sn
HostPayload(a, sn, network) ==
    [ Empty |-> FALSE, Action |-> a,
      Node |-> [Network |-> network, Server |-> sn, Settings |-> 1, Action |-> NODE_NOOP],
      Host |-> [Settings |-> 2] ]

\* a message without payload
EmptyPayload ==
    [ Empty |-> TRUE, Action |-> "",
      Node |-> ZeroNode, Host |-> [Settings |-> 0] ]

\* the host updates that arrive: every action and the empty message from s1,
\* a join and a removal from s2, a removal on the topic of a server the host
\* does not know
HostUpdates ==
    { <<"s1", HostPayload(a, "s1", "n1")>> :
        a \in { Upgrade, JoinHostToNetwork, DeleteHost, UpdateHost, RequestAck,
                SignalHost, UpdateKeys, RequestPull, CheckIn, "" } }
      \cup { <<"s1", HostPayload(JoinHostToNetwork, "s1", "n2")>>,
             <<"s1", EmptyPayload>>,
             <<"s2", HostPayload(JoinHostToNetwork, "s2", "n2")>>,
             <<"s2", HostPayload(DeleteHost, "s2", "n2")>>,
             <<"s3", HostPayload(DeleteHost, "s3", "n1")>> }

\* what may go wrong in one HostUpdate
HostFaults ==
    { {}, {"decrypt"}, {"unmarshal"}, {"useVersion"}, {"hardRestart"}, {"writeNetclient"},
      {"configure"} }

\* what config.UpdateHost may report back
UpdateHostFlags ==
    { {}, {"resetInterface"}, {"restartDaemon"}, {"resetInterface", "restartDaemon"},
      {"sendHostUpdate"}, {"restartDaemon", "sendHostUpdate"} }

DoHostUpdate ==
    \E u \in HostUpdates, faults \in HostFaults :
        \E updateFlags \in (IF u[2].Action = UpdateHost THEN UpdateHostFlags ELSE {{}}) :
            HostUpdate(u[1], u[2], faults, updateFlags)

(***************************************************************************)
(* mqFallback and mqFallbackPull: the fallback reconciler                  *)
(***************************************************************************)
VARIABLES
    Mqclient,    \* the MQTT client: "nil", "closed" or "connected"
    CurrServer,  \* config.CurrServer, "" when there is none
    ctxDone,     \* ctx.Done() of mqFallback is closed
    fpc,         \* where mqFallback is: "select", "pulling" (in Pull) or "stopped"
    tickerOn,    \* mqFallbackTicker was not stopped
    ftick        \* the last step of mqFallback ("none" when something else happened
                 \* since), the pulls of its current tick, the result of the pull

fbVars == <<Mqclient, CurrServer, ctxDone, fpc, tickerOn, ftick>>

NoTick == [step |-> "none", pulls |-> 0, ok |-> FALSE]

\* mqhandlers.go:406: the client reports an open and connected connection
IsConnected == Mqclient = "connected"

\* mqhandlers.go:406-408: the tick does nothing
TickSkipsAlways == TRUE

TickSkips == IsConnected \/ CurrServer = ""

\* mqhandlers.go:441-471, 473-484: the calls of mqFallbackPull for a snapshot
\* that passed the version check
FallbackApplyCalls(response, resetInterface, replacePeers, faults) ==
    AutoUpdateCalls(response.ServerVersion, faults)
        \o PersistVersionCalls(CurrServer, response.ServerVersion)
        \o ApplyPeersCalls([response EXCEPT !.ReplacePeers = replacePeers])
        \o (IF resetInterface
            THEN <<"nc.Close", "NewNCIface", "nc.Create", "nc.Configure">>
                    \o (IF "configure" \in faults
                        THEN <<"slog.Error(could not configure netmaker interface)">>
                        ELSE <<"SetPeers(false)">>)
            ELSE <<>>)

\* mqhandlers.go:416-426: the reconnect after the snapshot was handled
ReconnectCallsNever(faults) == <<>>

ReconnectCalls(faults) ==
    IF ~ServerFound(CurrServer) THEN <<>>
    ELSE (IF Mqclient # "nil" THEN <<"Mqclient.Disconnect">> ELSE <<>>)
            \o (IF "setupMQTT" \in faults
                THEN <<"setupMQTT", "slog.Error(unable to connect to broker)">>
                ELSE <<"setupMQTT">>)

\* mqhandlers.go:405-411: the ticker fires and the select takes its case
mqFallbackTick ==
    /\ fpc = "select"
    /\ tickerOn
    /\ IF TickSkips
       THEN /\ ftick' = [step |-> "tick", pulls |-> 0, ok |-> FALSE]
            /\ fpc' = fpc
       ELSE /\ ftick' = [step |-> "tick", pulls |-> 1, ok |-> FALSE]
            /\ fpc' = "pulling"
    /\ UNCHANGED <<Mqclient, CurrServer, ctxDone, tickerOn, mqVars>>

\* mqhandlers.go:411-427, 434-485: Pull returns, and on success the snapshot
\* goes through mqFallbackPull and the connection is set up again. A hard
\* restart replaces the process, whose reconciler starts over at its select.
PullReturns(ok, response, resetInterface, replacePeers, faults) ==
    /\ fpc = "pulling"
    /\ fpc' = "select"
    /\ ftick' = [step |-> "pull", pulls |-> ftick.pulls, ok |-> ok]
    /\ msg' = [kind |-> "pull", topic |-> CurrServer, data |-> response, faults |-> faults,
               dup |-> FALSE,
               flags |-> (IF resetInterface THEN {"resetInterface"} ELSE {})
                           \cup (IF replacePeers THEN {"replacePeers"} ELSE {})]
    /\ UNCHANGED <<CurrServer, ctxDone, tickerOn, nodes, messageCache, host, lastPeerUpdate>>
    /\ IF ~ok
       THEN /\ calls' = <<"slog.Error(pull failed)">>
            /\ UNCHANGED <<servers, hostPeers, Mqclient>>
       ELSE IF ~ServerFound(CurrServer)
       THEN /\ calls' = <<"slog.Error(server not found in config)">>
            /\ UNCHANGED <<servers, hostPeers, Mqclient>>
       ELSE IF VersionCheckAborts(response.ServerVersion)
       THEN /\ calls' = <<"slog.Error(error checking version less than)">>
                            \o ReconnectCalls(faults)
            /\ Mqclient' = IF "setupMQTT" \in faults THEN "closed" ELSE "connected"
            /\ UNCHANGED <<servers, hostPeers>>
       ELSE IF HardRestartEnds(response.ServerVersion, faults)
       THEN /\ calls' = AutoUpdateCalls(response.ServerVersion, faults)
            /\ UNCHANGED <<servers, hostPeers, Mqclient>>
       ELSE /\ servers' = [servers EXCEPT ![CurrServer].Version =
                                StoredVersion(CurrServer, response.ServerVersion)]
            /\ hostPeers' = UpdateHostPeers(response.Peers)
            /\ calls' = FallbackApplyCalls(response, resetInterface, replacePeers, faults)
                            \o ReconnectCalls(faults)
            /\ Mqclient' = IF "setupMQTT" \in faults THEN "closed" ELSE "connected"

\* the cancellation of the context of mqFallback
Cancel ==
    /\ ~ctxDone
    /\ ctxDone' = TRUE
    /\ ftick' = [ftick EXCEPT !.step = "none"]
    /\ UNCHANGED <<Mqclient, CurrServer, fpc, tickerOn, mqVars>>

\* mqhandlers.go:401-404: the select takes the case of ctx.Done()
mqFallbackStopKeepsTicker ==
    /\ fpc = "select"
    /\ ctxDone
    /\ fpc' = "stopped"
    /\ tickerOn' = tickerOn
    /\ ftick' = [step |-> "stop", pulls |-> 0, ok |-> FALSE]
    /\ UNCHANGED <<Mqclient, CurrServer, ctxDone, mqVars>>

mqFallbackStop ==
    /\ fpc = "select"
    /\ ctxDone
    /\ fpc' = "stopped"
    /\ tickerOn' = FALSE
    /\ ftick' = [step |-> "stop", pulls |-> 0, ok |-> FALSE]
    /\ UNCHANGED <<Mqclient, CurrServer, ctxDone, mqVars>>

\* the connection to the broker is lost
ConnectionLost ==
    /\ Mqclient = "connected"
    /\ Mqclient' = "closed"
    /\ ftick' = [ftick EXCEPT !.step = "none"]
    /\ UNCHANGED <<CurrServer, ctxDone, fpc, tickerOn, mqVars>>

\* the server of the current connection removes the host
DoDeleteCurrentHost ==
    /\ CurrServer # ""
    /\ \E faults \in {{}, {"writeNetclient"}} :
         HostUpdate(CurrServer, HostPayload(DeleteHost, CurrServer, "n1"), faults, {})
    /\ ftick' = [ftick EXCEPT !.step = "none"]
    /\ UNCHANGED <<Mqclient, CurrServer, ctxDone, fpc, tickerOn>>

\* what Pull returns with a snapshot
PullFlags == { <<FALSE, FALSE>>, <<FALSE, TRUE>>, <<TRUE, TRUE>> }

FallbackFaults == { {}, {"useVersion"}, {"hardRestart"}, {"configure"}, {"setupMQTT"} }

DoPullReturns ==
    \/ \E response \in PeerPayloads, fl \in PullFlags, faults \in FallbackFaults :
          PullReturns(TRUE, response, fl[1], fl[2], faults)
    \/ \E response \in {x \in PeerPayloads : x.ServerVersion = ClientVersion /\ x.ReplacePeers} :
          PullReturns(FALSE, response, FALSE, FALSE, {"pull"})

\* the reconciler has just been started
InitFallback ==
    /\ Mqclient \in {"nil", "closed", "connected"}
    /\ CurrServer \in {"", "s1"}
    /\ ctxDone = FALSE
    /\ fpc = "select"
    /\ tickerOn = TRUE
    /\ ftick = NoTick

\* the pulls of a reconciler whose server runs the version of the client
DoPullOfCurrentVersionReturns ==
    \/ \E response \in {x \in PeerPayloads : x.ServerVersion = ClientVersion},
          faults \in {{}, {"setupMQTT"}} :
          PullReturns(TRUE, response, FALSE, response.ReplacePeers, faults)
    \/ \E response \in {x \in PeerPayloads : x.ServerVersion = ClientVersion /\ x.ReplacePeers} :
          PullReturns(FALSE, response, FALSE, FALSE, {"pull"})

NextCancellation ==
    \/ mqFallbackTick
    \/ DoPullOfCurrentVersionReturns
    \/ Cancel
    \/ mqFallbackStop
    \/ ConnectionLost
    \/ DoDeleteCurrentHost

NextFallback ==
    \/ mqFallbackTick
    \/ DoPullReturns
    \/ Cancel
    \/ mqFallbackStop
    \/ ConnectionLost
    \/ DoDeleteCurrentHost

NoMsg ==
    [kind |-> "none", topic |-> "", data |-> NoData, faults |-> {}, dup |-> FALSE, flags |-> {}]

\* the host has registered with both servers and has joined no network
InitMQ ==
    /\ nodes = EmptyMap
    /\ servers = [s \in Servers |-> [Version |-> ClientVersion, Nodes |-> {}]]
    /\ messageCache = [n \in MQNetworks |-> NoData]
    /\ hostPeers = {}
    /\ host = [AutoUpdate |-> TRUE, Settings |-> 1]
    /\ lastPeerUpdate = EmptyMap
    /\ msg = NoMsg
    /\ calls = <<>>

\* a host that has joined n1, n2 or both when the daemon starts
InitJoined ==
    /\ \E joined \in SUBSET MQNetworks :
         /\ nodes = [n \in joined |->
                       [Network |-> n, Server |-> ServerOfNetwork(n), Settings |-> 1,
                        Action |-> NODE_NOOP]]
         /\ servers = [s \in Servers |->
                         [Version |-> ClientVersion,
                          Nodes |-> {n \in joined : ServerOfNetwork(n) = s}]]
    /\ messageCache = [n \in MQNetworks |-> NoData]
    /\ hostPeers = {}
    /\ host = [AutoUpdate |-> TRUE, Settings |-> 1]
    /\ lastPeerUpdate = EmptyMap
    /\ msg = NoMsg
    /\ calls = <<>>

(***************************************************************************)
(* The application of the peers step by step: the handler, the detection   *)
(* it starts with a go statement, and the probe tasks the detection starts *)
(***************************************************************************)
VARIABLES
    hpc,      \* where the handler is: "idle", or "fw" between the go statement
              \* and handleFwUpdate
    spawned   \* the handleEndpointDetection goroutines started and not yet run

applyVars == <<hpc, spawned>>

\* mqhandlers.go:157-158, 470-471: nothing stands between the go statement
\* and handleFwUpdate
FirewallStepWaitsForProbes == spawned = {} /\ probes = {}

FirewallStepReady == TRUE

\* mqhandlers.go:151-157 (463-470 for a snapshot): the peers are merged and
\* applied, and the detection is started
PeerUpdateSpawns(kind, data, peers, peerInfo) ==
    /\ hpc = "idle"
    /\ hpc' = "fw"
    /\ msg' = [kind |-> kind, topic |-> "s1", data |-> data, faults |-> {}, dup |-> FALSE,
               flags |-> {}]
    /\ hostPeers' = UpdateHostPeers(data.Peers)
    /\ calls' = ApplyUntilDetectionCalls(data)
    /\ spawned' = spawned \cup {[peers |-> peers, peerInfo |-> peerInfo]}
    /\ UNCHANGED <<nodes, servers, messageCache, host, lastPeerUpdate, detectVars>>

\* mqhandlers.go:158 (471): handleFwUpdate, and the handler returns
PeerUpdateFirewall ==
    /\ hpc = "fw"
    /\ FirewallStepReady
    /\ hpc' = "idle"
    /\ calls' = calls \o handleFwUpdateCalls(msg.data.FwUpdate)
    /\ UNCHANGED <<nodes, servers, messageCache, hostPeers, host, lastPeerUpdate, msg,
                   spawned, detectVars>>

\* mqhandlers.go:296-337: a detection that was started runs
DetectionRuns ==
    /\ \E d \in spawned :
         /\ handleEndpointDetection(d.peers, d.peerInfo)
         /\ spawned' = spawned \ {d}
    /\ UNCHANGED <<hpc, mqVars>>

\* mqhandlers.go:325-331: a probe task ends
ProbeEnds(t, found) ==
    /\ FindBestEndpoint(t, found)
    /\ UNCHANGED <<hpc, spawned, mqVars>>

\* the peers and the host information of the updates: k1 with two private
\* interfaces and k2 with one, or k1 alone with one
ApplyDetectInputs ==
    { [ peers |-> <<DetectPeer("k1", <<>>), DetectPeer("k2", <<>>)>>,
        peerInfo |-> [k \in DetectKeys |->
                        IF k = "k1"
                        THEN [IsStatic |-> FALSE, ListenPort |-> ListenPortOf("k1"),
                              Interfaces |-> <<Iface("eth0", AddrPrivate172),
                                               Iface("eth1", AddrPrivate10)>>]
                        ELSE [IsStatic |-> FALSE, ListenPort |-> ListenPortOf("k2"),
                              Interfaces |-> <<Iface("eth0", AddrPrivate192)>>]] ],
      [ peers |-> <<DetectPeer("k1", <<CIDR(V4(10, 0, 0, 0), 24)>>)>>,
        peerInfo |-> [k \in {"k1"} |->
                        [IsStatic |-> FALSE, ListenPort |-> ListenPortOf("k1"),
                         Interfaces |-> <<Iface("eth0", AddrPrivate192)>>]] ] }

DoPeerUpdateSpawns ==
    \E kind \in {"peers", "pull"},
       data \in {x \in PeerPayloads : x.ServerVersion = ClientVersion},
       d \in ApplyDetectInputs :
        PeerUpdateSpawns(kind, data, d.peers, d.peerInfo)

DoProbeEnds == \E t \in probes, found \in BOOLEAN : ProbeEnds(t, found)

NextApply ==
    \/ DoPeerUpdateSpawns
    \/ PeerUpdateFirewall
    \/ DetectionRuns
    \/ DoProbeEnds

\* no handler is applying peers
InitApply ==
    /\ hpc = "idle"
    /\ spawned = {}

(***************************************************************************)
(* NodeUpdate run by two handlers at once, for two messages with the same  *)
(* payload: each handler reads the cache, compares and inserts, and then   *)
(* applies the node                                                        *)
(***************************************************************************)
VARIABLES
    rdata,   \* the payload of the two messages
    rpc,     \* where each handler is: "idle", "read" (before the read of the
             \* cache), "check" (before the comparison), "apply", "skipped", "done"
    rnode,   \* config.GetNode(network) as each handler took it
    rcur     \* currentMessage of each handler

raceVars == <<rdata, rpc, rnode, rcur>>

RaceHandlers == {1, 2}

\* two messages with the same payload arrive and a handler is started for each
TwoNodeUpdatesArrive(data) ==
    /\ \A h \in RaceHandlers : rpc[h] \in {"idle", "skipped", "done"}
    /\ rdata' = data
    /\ rpc' = [h \in RaceHandlers |-> "read"]
    /\ rnode' = [h \in RaceHandlers |-> ZeroNode]
    /\ rcur' = [h \in RaceHandlers |-> NoData]
    /\ msg' = [kind |-> "node", topic |-> data.Network, data |-> data, faults |-> {},
               dup |-> TRUE, flags |-> {}]
    /\ calls' = <<>>
    /\ UNCHANGED <<nodes, servers, messageCache, hostPeers, host, lastPeerUpdate>>

\* mqhandlers.go:35, 51: the handler takes the node and reads the cache
RaceRead(h) ==
    /\ rpc[h] = "read"
    /\ rnode' = [rnode EXCEPT ![h] = GetNode(rdata.Network)]
    /\ rcur' = [rcur EXCEPT ![h] = read(rdata.Network)]
    /\ rpc' = [rpc EXCEPT ![h] = "check"]
    /\ UNCHANGED <<rdata, mqVars>>

\* mqhandlers.go:52-56: the comparison, and the insert into the cache when the
\* payload differs from what was read
RaceCheck(h) ==
    /\ rpc[h] = "check"
    /\ IF CacheHit(rcur[h], rdata)
       THEN /\ rpc' = [rpc EXCEPT ![h] = "skipped"]
            /\ UNCHANGED messageCache
       ELSE /\ rpc' = [rpc EXCEPT ![h] = "apply"]
            /\ messageCache' = insert(rdata.Network, rdata)
    /\ UNCHANGED <<rdata, rnode, rcur, nodes, servers, hostPeers, host, lastPeerUpdate,
                   msg, calls>>

\* mqhandlers.go:57-97: the node is left or stored and the interface configured
RaceApply(h) ==
    /\ rpc[h] = "apply"
    /\ rpc' = [rpc EXCEPT ![h] = "done"]
    /\ calls' = calls \o NodeUpdateCalls(rdata, IfaceDelta(rnode[h], rdata), {})
    /\ IF rdata.Action = NODE_DELETE
       THEN /\ nodes' = LeaveNetworkNodes(rdata.Network)
            /\ servers' = LeaveNetworkServers(rdata.Network)
       ELSE /\ nodes' = UpdateNodeMap(rdata.Network, [rdata EXCEPT !.Action = NODE_NOOP])
            /\ UNCHANGED servers
    /\ UNCHANGED <<rdata, rnode, rcur, messageCache, hostPeers, host, lastPeerUpdate, msg>>

DoTwoNodeUpdatesArrive == \E data \in NodePayloads : TwoNodeUpdatesArrive(data)

DoRaceRead == \E h \in RaceHandlers : RaceRead(h)

DoRaceCheck == \E h \in RaceHandlers : RaceCheck(h)

DoRaceApply == \E h \in RaceHandlers : RaceApply(h)

NextRace ==
    \/ DoTwoNodeUpdatesArrive
    \/ DoRaceRead
    \/ DoRaceCheck
    \/ DoRaceApply

\* no handler is running
InitRace ==
    /\ rdata = NoData
    /\ rpc = [h \in RaceHandlers |-> "idle"]
    /\ rnode = [h \in RaceHandlers |-> ZeroNode]
    /\ rcur = [h \in RaceHandlers |-> NoData]

(***************************************************************************)
(* The specifications                                                      *)
(***************************************************************************)
\* the reconciler is not running
InitIdle ==
    /\ Mqclient = "connected"
    /\ CurrServer = "s1"
    /\ ctxDone = FALSE
    /\ fpc = "stopped"
    /\ tickerOn = FALSE
    /\ ftick = NoTick
    /\ InitApply /\ InitRace

vars == <<proxyVars, detectVars, mqVars, fbVars, applyVars, raceVars>>

Init == InitProxy /\ InitDetect /\ InitMQ /\ InitIdle

SpecProxy == Init /\ [][NextProxy /\ UNCHANGED <<detectVars, mqVars, fbVars, applyVars, raceVars>>]_vars

SpecDetect == Init /\ [][NextDetect /\ UNCHANGED <<proxyVars, mqVars, fbVars, applyVars, raceVars>>]_vars

NextNode == DoNodeUpdate

NextPeers == DoHostPeerUpdate

\* a host that has joined both networks or none, with automatic updates on or off
InitPeers ==
    /\ InitProxy /\ InitDetect /\ InitIdle
    /\ \E joined \in {{}, MQNetworks} :
         /\ nodes = [n \in joined |->
                       [Network |-> n, Server |-> ServerOfNetwork(n), Settings |-> 1,
                        Action |-> NODE_NOOP]]
         /\ servers = [s \in Servers |->
                         [Version |-> ClientVersion,
                          Nodes |-> {n \in joined : ServerOfNetwork(n) = s}]]
    /\ messageCache = [n \in MQNetworks |-> NoData]
    /\ hostPeers = {}
    /\ host \in {[AutoUpdate |-> a, Settings |-> 1] : a \in BOOLEAN}
    /\ lastPeerUpdate = EmptyMap
    /\ msg = NoMsg
    /\ calls = <<>>

SpecPeers == InitPeers /\ [][NextPeers /\ UNCHANGED <<proxyVars, detectVars, fbVars, applyVars, raceVars>>]_vars

NextHost == DoHostUpdate

\* a host registered with s1 and s2 that has joined n1 and n2 on s1, n1 on s1
\* and n2 on s2, or no network; s1 runs the version of the client, a newer
\* one or a custom build
InitHost ==
    /\ InitProxy /\ InitDetect /\ InitIdle
    /\ \E placement \in { EmptyMap, [n \in MQNetworks |-> "s1"],
                           [n \in MQNetworks |-> ServerOfNetwork(n)] } :
         /\ nodes = [n \in DOMAIN placement |->
                       [Network |-> n, Server |-> placement[n], Settings |-> 1,
                        Action |-> NODE_NOOP]]
         /\ \E v \in {ClientVersion, "0.21.0", "dev"} :
              servers = [s \in Servers |->
                           [Version |-> IF s = "s1" THEN v ELSE ClientVersion,
                            Nodes |-> {n \in DOMAIN placement : placement[n] = s}]]
    /\ messageCache = [n \in MQNetworks |-> NoData]
    /\ hostPeers = {"p1"}
    /\ host = [AutoUpdate |-> TRUE, Settings |-> 1]
    /\ lastPeerUpdate = EmptyMap
    /\ msg = NoMsg
    /\ calls = <<>>

SpecHost == InitHost /\ [][NextHost /\ UNCHANGED <<proxyVars, detectVars, fbVars, applyVars, raceVars>>]_vars

\* a host that has joined both networks on s1, whose reconciler starts
InitReconciler ==
    /\ InitProxy /\ InitDetect /\ InitFallback /\ InitApply /\ InitRace
    /\ nodes = [n \in MQNetworks |->
                  [Network |-> n, Server |-> "s1", Settings |-> 1, Action |-> NODE_NOOP]]
    /\ servers = [s \in Servers |->
                    [Version |-> ClientVersion,
                     Nodes |-> IF s = "s1" THEN MQNetworks ELSE {}]]
    /\ messageCache = [n \in MQNetworks |-> NoData]
    /\ hostPeers = {}
    /\ host = [AutoUpdate |-> TRUE, Settings |-> 1]
    /\ lastPeerUpdate = EmptyMap
    /\ msg = NoMsg
    /\ calls = <<>>

SpecFallback ==
    InitReconciler /\ [][NextFallback /\ UNCHANGED <<proxyVars, detectVars, applyVars, raceVars>>]_vars

\* mqhandlers.go:399-405: a select with several ready cases takes one of them at
\* random, so the case of ctx.Done(), ready at every select once the context
\* is cancelled, is not passed over for ever; and a pull that was started
\* returns
SpecFallbackLive ==
    /\ InitReconciler
    /\ [][NextCancellation /\ UNCHANGED <<proxyVars, detectVars, applyVars, raceVars>>]_vars
    /\ SF_vars(mqFallbackStop /\ UNCHANGED <<proxyVars, detectVars, applyVars, raceVars>>)
    /\ WF_vars(DoPullOfCurrentVersionReturns /\ UNCHANGED <<proxyVars, detectVars, applyVars, raceVars>>)

\* the handlers and the reconciler of one daemon, each with a few of its
\* messages for s1
SyncNodeUpdate ==
    /\ \E data \in {x \in NodePayloads : x.Network = "n1" /\ x.Settings = 2},
          faults \in {{}, {"configure"}} :
          NodeUpdate(data.Network, data, faults)
    /\ UNCHANGED fbVars

SyncHostPeerUpdate ==
    /\ \E data \in {x \in PeerPayloads : x.ReplacePeers},
          faults \in {{}, {"hardRestart"}} :
          HostPeerUpdate("s1", data, faults)
    /\ UNCHANGED fbVars

SyncHostUpdate ==
    /\ \E a \in {Upgrade, JoinHostToNetwork, DeleteHost, UpdateHost},
          faults \in {{}, {"hardRestart"}} :
          HostUpdate("s1", HostPayload(a, "s1", "n1"), faults, {})
    /\ UNCHANGED fbVars

SyncPull ==
    /\ \E response \in {x \in PeerPayloads : ~x.ReplacePeers},
          faults \in {{"setupMQTT"}, {"hardRestart", "setupMQTT"}} :
          PullReturns(TRUE, response, FALSE, FALSE, faults)

NextSync ==
    \/ SyncNodeUpdate
    \/ SyncHostPeerUpdate
    \/ SyncHostUpdate
    \/ mqFallbackTick
    \/ SyncPull

\* a host that has joined both networks on s1, disconnected from the broker;
\* s1 runs the version of the client or a custom build
InitSync ==
    /\ InitProxy /\ InitDetect /\ InitApply /\ InitRace
    /\ Mqclient = "closed"
    /\ CurrServer = "s1"
    /\ ctxDone = FALSE
    /\ fpc = "select"
    /\ tickerOn = TRUE
    /\ ftick = NoTick
    /\ nodes = [n \in MQNetworks |->
                  [Network |-> n, Server |-> "s1", Settings |-> 1, Action |-> NODE_NOOP]]
    /\ \E v \in {ClientVersion, "dev"} :
         servers = [s \in Servers |->
                      [Version |-> IF s = "s1" THEN v ELSE ClientVersion,
                       Nodes |-> IF s = "s1" THEN MQNetworks ELSE {}]]
    /\ messageCache = [n \in MQNetworks |-> NoData]
    /\ hostPeers = {}
    /\ host = [AutoUpdate |-> TRUE, Settings |-> 1]
    /\ lastPeerUpdate = EmptyMap
    /\ msg = NoMsg
    /\ calls = <<>>

SpecSync == InitSync /\ [][NextSync /\ UNCHANGED <<proxyVars, detectVars, applyVars, raceVars>>]_vars

\* a host with nodes on which no peer was detected yet
InitApplying ==
    /\ InitProxy /\ InitDetect /\ InitApply /\ InitRace
    /\ Mqclient = "connected"
    /\ CurrServer = "s1"
    /\ ctxDone = FALSE
    /\ fpc = "stopped"
    /\ tickerOn = FALSE
    /\ ftick = NoTick
    /\ InitJoined

SpecApply == InitApplying /\ [][NextApply /\ UNCHANGED <<proxyVars, fbVars, raceVars>>]_vars

\* the scheduler runs the handler; nothing is assumed of the detection and of
\* the probe tasks
SpecApplyLive ==
    SpecApply /\ WF_vars(PeerUpdateFirewall /\ UNCHANGED <<proxyVars, fbVars, raceVars>>)

SpecRace == InitApplying /\ [][NextRace /\ UNCHANGED <<proxyVars, detectVars, fbVars, applyVars>>]_vars

InitNode == InitProxy /\ InitDetect /\ InitIdle /\ InitJoined

SpecNode == InitNode /\ [][NextNode /\ UNCHANGED <<proxyVars, detectVars, fbVars, applyVars, raceVars>>]_vars

(***************************************************************************)
(* Properties of the peer proxy layer (SpecProxy)                          *)
(***************************************************************************)
ErrorRets == {"relay endpoint is nil", "resolve error", "start error"}

\* the datapaths that were started and not stopped
LiveProxies == {i \in DOMAIN proxies : ~proxies[i].closed}

\* C3: on every failure path of AddNewPeer (a relayed peer without a relay
\* target, an endpoint that does not resolve, a datapath that does not start)
\* the call returns an error and the network-keyed registry, the hash-keyed
\* registry and the external-client records are what they were before the call.
C3_FailureRegistersNothing ==
    [][ ( /\ pcall'.op = "AddNewPeer"
          /\ \/ pcall'.ret # "ok"
             \/ pcall'.isRelayed /\ pcall'.relayTo = None
             \/ ~pcall'.isRelayed /\ To4(pcall'.peer.Endpoint.IP) = NilIP )
        => /\ pcall'.ret \in ErrorRets
           /\ UNCHANGED <<networkPeerMap, peerHashMap, extClients>> ]_vars

\* a failed AddNewPeer for a peer that an earlier call registered
C3_Witness ==
    /\ pcall.op = "AddNewPeer"
    /\ pcall.ret \in ErrorRets
    /\ GetPeerFound(pcall.network, pcall.peer.PublicKey)
    /\ DOMAIN extClients # {}

\* C4: after AddNewPeer succeeds both registries hold an entry for the peer,
\* and SetPeersEndpointToProxy for a network returns the list with the endpoint
\* of every peer registered under that network replaced by the local address
\* of its datapath when proxying is enabled, and the list as it was given when
\* proxying is disabled; a peer without an entry keeps its endpoint.
C4_RegisteredAndRewritten ==
    /\ (pcall.op = "AddNewPeer" /\ pcall.ret = "ok")
        => /\ GetPeerFound(pcall.network, pcall.peer.PublicKey)
           /\ GetPeer(pcall.network, pcall.peer.PublicKey).Key = pcall.peer.PublicKey
           /\ ConvPeerKeyToHash(pcall.peer.PublicKey) \in DOMAIN peerHashMap
           /\ peerHashMap[ConvPeerKeyToHash(pcall.peer.PublicKey)].PeerKey = pcall.peer.PublicKey
    /\ pcall.op = "SetPeersEndpointToProxy"
        => /\ Len(pcall.out) = Len(pcall.in)
           /\ \A i \in 1..Len(pcall.in) :
                LET p == pcall.in[i]
                    registered == <<pcall.network, p.PublicKey>> \in DOMAIN networkPeerMap
                IN  pcall.out[i] =
                        IF ProxyStatus /\ registered
                        THEN [p EXCEPT !.Endpoint =
                                LocalAddrOf(networkPeerMap[<<pcall.network, p.PublicKey>>].Proxy)]
                        ELSE p

\* proxying enabled, a list with a registered and an unregistered peer
C4_Witness ==
    /\ pcall.op = "SetPeersEndpointToProxy"
    /\ ProxyStatus
    /\ \E i, j \in 1..Len(pcall.in) :
         /\ GetPeerFound(pcall.network, pcall.in[i].PublicKey)
         /\ pcall.out[i].Endpoint # pcall.in[i].Endpoint
         /\ ~GetPeerFound(pcall.network, pcall.in[j].PublicKey)
         /\ pcall.out[j] = pcall.in[j]

\* C5: at most one live (started and not stopped) datapath per
\* (network, peer key), whatever AddNewPeer calls were made.
C5_OneLiveConnection ==
    \A i, j \in LiveProxies :
        (proxies[i].network = proxies[j].network /\ proxies[i].key = proxies[j].key)
            => i = j

\* C6: every Connection in the registry that has its relay flag set has a
\* relay endpoint.
C6_RelayedHasEndpoint ==
    \A nk \in DOMAIN networkPeerMap :
        networkPeerMap[nk].IsRelayed => networkPeerMap[nk].RelayedEndpoint # None

\* a relayed Connection is registered
C6_Witness ==
    \E nk \in DOMAIN networkPeerMap :
        networkPeerMap[nk].IsRelayed /\ networkPeerMap[nk].RelayedEndpoint = Some(RelayAddr)

\* C7: every Connection has a keepalive interval in its ProxyConfig: 25
\* seconds when the caller left it unset, the caller's own otherwise, and the
\* peer configuration the ProxyConfig was built from carries the same value.
C7_KeepaliveSet ==
    /\ \A nk \in DOMAIN networkPeerMap :
         /\ networkPeerMap[nk].Config.PersistentKeepalive # None
         /\ networkPeerMap[nk].Config.PeerConf.PersistentKeepaliveInterval
                = networkPeerMap[nk].Config.PersistentKeepalive
    /\ (pcall.op = "AddNewPeer" /\ pcall.ret = "ok")
        => GetPeer(pcall.network, pcall.peer.PublicKey).Config.PersistentKeepalive =
             IF pcall.peer.PersistentKeepaliveInterval = None
             THEN Some(25)
             ELSE pcall.peer.PersistentKeepaliveInterval

\* AddNewPeer succeeded for a peer whose keepalive interval was unset
C7_Witness ==
    /\ pcall.op = "AddNewPeer"
    /\ pcall.ret = "ok"
    /\ pcall.peer.PersistentKeepaliveInterval = None


(***************************************************************************)
(* Properties of endpoint detection (SpecDetect)                           *)
(***************************************************************************)
\* C8: handleEndpointDetection launches no probe for a loopback address, a
\* multicast address, a link-local IPv6 address, an address inside an
\* allowed-IP range of any peer of the update, a peer flagged static or a
\* peer whose endpoint is detected already; every probe it launches is for a
\* private address of an interface of that peer that is no bridge.
C8_ProbesOnlyEligible ==
    \A i \in 1..Len(dcall.launched) :
        LET t == dcall.launched[i]
        IN  /\ ~IsLoopback(t.peerIP)
            /\ ~IsMulticast(t.peerIP)
            /\ ~(IsLinkLocalUnicast(t.peerIP) /\ Len(t.peerIP) = 16)
            /\ \A p \in 1..Len(dcall.peers) :
                 \A c \in 1..Len(dcall.peers[p].AllowedIPs) :
                    ~Contains(dcall.peers[p].AllowedIPs[c], t.peerIP)
            /\ t.peerPubKey \in DOMAIN dcall.peerInfo
            /\ ~dcall.peerInfo[t.peerPubKey].IsStatic
            /\ t.peerPubKey \notin dcall.known
            /\ IsPrivate(t.peerIP)
            /\ \E j \in 1..Len(dcall.peerInfo[t.peerPubKey].Interfaces) :
                 LET f == dcall.peerInfo[t.peerPubKey].Interfaces[j]
                 IN  IPString(f.Address.IP) = t.peerIP /\ ~IsBridgeNetwork(f.Name)

\* a call that probed one interface of a peer and passed over another one
\* that is private but inside an advertised range, while a peer detected
\* before the call got no probe
C8_Witness ==
    /\ Len(dcall.launched) = 1
    /\ dcall.launched[1].peerPubKey = "k1"
    /\ Len(dcall.peerInfo["k1"].Interfaces) = 2
    /\ \E j \in 1..2 :
         /\ IsPrivate(dcall.peerInfo["k1"].Interfaces[j].Address.IP)
         /\ isAddressInPeers(dcall.peerInfo["k1"].Interfaces[j].Address.IP,
                             getAllAllowedIPs(dcall.peers))
    /\ "k2" \in dcall.known
    /\ "k2" \in DOMAIN dcall.peerInfo
    /\ \E p \in 1..Len(dcall.peers) : dcall.peers[p].PublicKey = "k2"

(***************************************************************************)
(* Properties of the message handlers                                      *)
(***************************************************************************)
\* the invocation decrypted and decoded its message
Decoded(m, serverName) ==
    /\ serverName \in DOMAIN servers
    /\ "decrypt" \notin m.faults
    /\ "unmarshal" \notin m.faults

\* C2: a node update whose decrypted payload equals the payload cached for
\* its network is dropped without side effects: the node map, the server
\* records and the cache are unchanged and no collaborator call is made (no
\* write of the node config, no Configure, no unsubscribe, no DONE signal); a
\* payload that differs from the cached one replaces the cache entry.
C2_NodeUpdateDedupe ==
    [][ (msg'.kind = "node" /\ Decoded(msg', GetNode(msg'.topic).Server))
        => IF msg'.data = messageCache[msg'.data.Network]
           THEN /\ UNCHANGED <<nodes, servers, messageCache, hostPeers, host>>
                /\ calls' = <<>>
           ELSE messageCache' = [messageCache EXCEPT ![msg'.data.Network] = msg'.data] ]_vars

\* a node update was dropped by the cache check: it was decoded, it is the
\* cached payload of a joined network, and nothing was called for it
C2_Witness ==
    /\ msg.kind = "node"
    /\ Decoded(msg, GetNode(msg.topic).Server)
    /\ msg.topic \in DOMAIN nodes
    /\ messageCache[msg.data.Network] = msg.data
    /\ msg.data.Action = NODE_FORCE_UPDATE
    /\ calls = <<>>

\* the calls that change the peer map, the tunnel interface, the routes or
\* the firewall
ReconfigureCalls ==
    { "UpdateHostPeers", "SetPeers(true)", "SetPeers(false)", "wireguard.SetEgressRoutes",
      "firewall.SetEgressRoutes", "firewall.DeleteEgressGwRoutes" }

\* C1 as stated: a peer update whose payload is the payload of the previous
\* peer update for the same server is handled without a merge of the peer
\* map, without SetPeers and without an egress-route or firewall call.
C1_RepeatedPeerUpdateIgnored ==
    (msg.kind = "peers" /\ msg.dup) => Range(calls) \cap ReconfigureCalls = {}

\* C1 as amended: HostPeerUpdate has no cache check. A peer update whose
\* payload is the payload of the previous one for the same server, and that
\* passes the checks of the handler (a node exists, the server is known, the
\* message decrypts and decodes, the version comparison does not fail, no
\* hard restart replaces the process), is applied again in full: the peer map
\* is merged, SetPeers is called and the firewall is called.
C1_RepeatedPeerUpdateApplied ==
    ( /\ msg.kind = "peers"
      /\ msg.dup
      /\ DOMAIN nodes # {}
      /\ Decoded(msg, msg.topic)
      /\ (msg.data.ServerVersion = ClientVersion \/ VersionRank(msg.data.ServerVersion) # 0)
      /\ ("daemon.HardRestart" \in Range(calls) => "hardRestart" \in msg.faults) )
    => /\ "UpdateHostPeers" \in Range(calls)
       /\ (IF msg.data.ReplacePeers THEN "SetPeers(true)" ELSE "SetPeers(false)") \in Range(calls)
       /\ Range(calls) \cap {"firewall.SetEgressRoutes", "firewall.DeleteEgressGwRoutes"} # {}
       /\ hostPeers \cap {msg.data.Peers[i].PublicKey :
                            i \in {j \in 1..Len(msg.data.Peers) : msg.data.Peers[j].Remove}} = {}

\* the same peer update was handled a second time and SetPeers was called for it
C1_Witness ==
    /\ msg.kind = "peers"
    /\ msg.dup
    /\ "SetPeers(true)" \in Range(calls)
    /\ "UpdateHostPeers" \in Range(calls)

\* the calls that close and recreate the tunnel interface
ResetInterfaceCalls == {"nc.Close", "NewNCIface", "nc.Create", "nc.Configure", "SetPeers(false)"}

\* C9: a host update with action delete-host that is decoded for a server of
\* the configuration, whatever the state before it, removes every node whose
\* server is that server and no other node, removes the server record, and
\* raises the restart flag in the same invocation; daemon.Restart is then
\* called unless the write of the host config fails, and the interface is
\* not reset.
C9_DeleteHostRemovesAndRestarts ==
    [][ ( /\ msg'.kind = "host"
          /\ Decoded(msg', msg'.topic)
          /\ ~msg'.data.Empty
          /\ msg'.data.Action = DeleteHost )
        => /\ \A n \in DOMAIN nodes' : nodes'[n].Server # msg'.topic
           /\ \A n \in DOMAIN nodes :
                nodes[n].Server # msg'.topic => (n \in DOMAIN nodes' /\ nodes'[n] = nodes[n])
           /\ msg'.topic \notin DOMAIN servers'
           /\ "restartDaemon" \in msg'.flags
           /\ ("daemon.Restart" \in Range(calls')) <=> ("writeNetclient" \notin msg'.faults)
           /\ Range(calls') \cap ResetInterfaceCalls = {} ]_vars

\* a delete-host that removed the two nodes of its server and restarted the
\* daemon
C9_Witness ==
    /\ msg.kind = "host"
    /\ msg.data.Action = DeleteHost
    /\ "restartDaemon" \in msg.flags
    /\ Cardinality({i \in 1..Len(calls) : calls[i] = "DeleteNode"}) = 2
    /\ "daemon.Restart" \in Range(calls)
    /\ nodes = EmptyMap
    /\ msg.topic \notin DOMAIN servers

\* C10: a host update that is decoded and whose action is none of the
\* actions the switch has a case for changes no node, server, host or peer
\* configuration and no cache entry, raises no flag, and makes no call but
\* the report of the error: nothing is persisted, cleared or published, the
\* daemon is not restarted and the interface is not reset.
C10_UnknownActionNoMutation ==
    [][ ( /\ msg'.kind = "host"
          /\ Decoded(msg', msg'.topic)
          /\ ~msg'.data.Empty
          /\ msg'.data.Action \notin { Upgrade, JoinHostToNetwork, DeleteHost, UpdateHost,
                                       RequestAck, SignalHost, UpdateKeys, RequestPull } )
        => /\ UNCHANGED <<nodes, servers, host, hostPeers, messageCache, lastPeerUpdate>>
           /\ msg'.flags = {}
           /\ calls' = <<"slog.Error(unknown host action)">> ]_vars

\* a host update with an action without a case arrived at a host that has
\* nodes, and was dropped with the error report
C10_Witness ==
    /\ msg.kind = "host"
    /\ Decoded(msg, msg.topic)
    /\ msg.data.Action = CheckIn
    /\ calls = <<"slog.Error(unknown host action)">>
    /\ DOMAIN nodes # {}

(***************************************************************************)
(* Properties of the fallback reconciler (SpecFallback)                    *)
(***************************************************************************)
\* a tick with an open connection or without a current server pulls nothing
\* and changes nothing; any other tick makes one pull
TickPullsOnce ==
    ftick'.step = "tick"
        => IF Mqclient = "connected" \/ CurrServer = ""
           THEN /\ ftick'.pulls = 0
                /\ fpc' = "select"
                /\ UNCHANGED <<mqVars, Mqclient, CurrServer>>
           ELSE /\ ftick'.pulls = 1
                /\ fpc' = "pulling"

\* a failed pull applies nothing and leaves the reconciler at its select with
\* the ticker running
FailedPullAppliesNothing ==
    (ftick'.step = "pull" /\ ~ftick'.ok)
        => /\ ftick'.pulls = 1
           /\ UNCHANGED <<nodes, servers, hostPeers, host, messageCache, Mqclient>>
           /\ Range(calls') \cap (ReconfigureCalls \cup {"setupMQTT"}) = {}
           /\ fpc' = "select"
           /\ tickerOn'

\* the snapshot of the step went through the steps of a peer update: the
\* version check, and behind it the merge, SetPeers, the start of the
\* detection and the firewall call
MergedAsPeerUpdate ==
    IF VersionCheckAborts(msg'.data.ServerVersion)
    THEN /\ UNCHANGED <<servers, hostPeers>>
         /\ Range(calls') \cap ReconfigureCalls = {}
    ELSE /\ hostPeers' = UpdateHostPeers(msg'.data.Peers)
         /\ servers'[CurrServer].Version = msg'.data.ServerVersion
         /\ {"UpdateHostPeers", "WriteNetclientConfig", "go handleEndpointDetection"}
                \subseteq Range(calls')
         /\ (IF "replacePeers" \in msg'.flags THEN "SetPeers(true)" ELSE "SetPeers(false)")
                \in Range(calls')
         /\ Range(calls') \cap {"firewall.SetEgressRoutes", "firewall.DeleteEgressGwRoutes"}
                # {}

\* the hard restart of the step took effect and replaced the process
ProcessReplaced ==
    "daemon.HardRestart" \in Range(calls') /\ "hardRestart" \notin msg'.faults

\* C11 as stated: a tick with the connection up or without a current server
\* pulls nothing and changes nothing; any other tick makes exactly one pull;
\* after a pull that succeeded the snapshot is applied as a peer update is
\* and the connection is set up again; after a pull that failed nothing is
\* applied and the reconciler waits for its next tick. (A hard restart that
\* replaces the process ends the invocation and is left aside.)
C11_TickAsStated ==
    [][ /\ TickPullsOnce
        /\ FailedPullAppliesNothing
        /\ (ftick'.step = "pull" /\ ftick'.ok /\ ~ProcessReplaced)
              => /\ ftick'.pulls = 1
                 /\ CurrServer \in DOMAIN servers'
                 /\ MergedAsPeerUpdate
                 /\ "setupMQTT" \in Range(calls') ]_vars

\* C11 as amended: the same, but the snapshot of a successful pull is applied
\* and the connection set up again only when the current server has a record
\* and no hard restart replaces the process: without a record the snapshot
\* is dropped and no reconnect is attempted, and a hard restart ends the
\* invocation before the merge and the reconnect.
C11_Tick ==
    [][ /\ TickPullsOnce
        /\ FailedPullAppliesNothing
        /\ (ftick'.step = "pull" /\ ftick'.ok)
              => /\ ftick'.pulls = 1
                 /\ IF CurrServer \notin DOMAIN servers
                    THEN /\ UNCHANGED <<nodes, servers, hostPeers, host, Mqclient>>
                         /\ Range(calls') \cap (ReconfigureCalls \cup {"setupMQTT"}) = {}
                    ELSE IF ProcessReplaced
                    THEN /\ UNCHANGED <<nodes, servers, hostPeers, host, Mqclient>>
                         /\ Range(calls') \cap (ReconfigureCalls \cup {"setupMQTT"}) = {}
                    ELSE /\ MergedAsPeerUpdate
                         /\ "setupMQTT" \in Range(calls')
                         /\ Mqclient' = IF "setupMQTT" \in msg'.faults
                                        THEN "closed" ELSE "connected" ]_vars

\* a pull that succeeded: its snapshot was merged and the connection is up again
C11_Witness ==
    /\ ftick.step = "pull"
    /\ ftick.ok
    /\ ftick.pulls = 1
    /\ "UpdateHostPeers" \in Range(calls)
    /\ "setupMQTT" \in Range(calls)
    /\ Mqclient = "connected"
    /\ hostPeers # {}

(***************************************************************************)
(* Properties of the version handling                                      *)
(***************************************************************************)
\* the last invocation was given a peer update or a snapshot that got to the
\* version check
AtVersionCheck ==
    \/ msg.kind = "peers" /\ DOMAIN nodes # {} /\ Decoded(msg, msg.topic)
    \/ msg.kind = "pull" /\ ftick.ok /\ msg.topic \in DOMAIN servers

\* C12: when a peer update (or a snapshot) declares a version known to be
\* newer than the client's and automatic updates are on, the invocation
\* upgrades, invokes the hard restart, and does nothing after it: no
\* persist of the server version, no merge, no write, no SetPeers, no route,
\* detection or firewall step.
C12_NothingAfterHardRestart ==
    ( /\ AtVersionCheck
      /\ VersionRank(msg.data.ServerVersion) > VersionRank(ClientVersion)
      /\ host.AutoUpdate
      /\ "useVersion" \notin msg.faults )
    => calls = <<"UseVersion", "daemon.HardRestart">>

\* C13: the stored version of a server changes only in a step that handles
\* a peer update or a snapshot for that server whose declared version
\* differs from the stored one, and becomes the declared version; a peer
\* update or snapshot that declares the stored version writes no server
\* record. (A tick of the reconciler handles no message.)
C13_VersionReplacedOnlyByDeclared ==
    [][ /\ \A sn \in DOMAIN servers \cap DOMAIN servers' :
             servers'[sn].Version # servers[sn].Version
                => /\ msg'.kind \in {"peers", "pull"}
                   /\ msg'.topic = sn
                   /\ msg'.data.ServerVersion # servers[sn].Version
                   /\ servers'[sn].Version = msg'.data.ServerVersion
                   /\ "WriteServerConfig" \in Range(calls')
        /\ ( /\ msg'.kind \in {"peers", "pull"}
             /\ msg'.topic \in DOMAIN servers
             /\ msg'.data.ServerVersion = servers[msg'.topic].Version
             /\ (ftick'.step # "tick" \/ ftick' = ftick) )
             => /\ "WriteServerConfig" \notin Range(calls')
                /\ UNCHANGED servers ]_vars

\* the stored version of s1 was replaced by an older one that a peer update
\* declared
C13_Witness ==
    /\ msg.kind = "peers"
    /\ msg.topic = "s1"
    /\ "s1" \in DOMAIN servers
    /\ servers["s1"].Version = "0.19.0"
    /\ msg.data.ServerVersion = "0.19.0"
    /\ "WriteServerConfig" \in Range(calls)

\* the step handles a message; a tick of the reconciler handles none
HandlesMessage == ftick'.step # "tick" \/ ftick' = ftick

\* C14: when the comparison of the versions has no result, a host update
\* with action upgrade goes on with the upgrade (UseVersion, and the hard
\* restart right after it when it succeeds), while a peer update or a
\* snapshot that declares a version other than the client's ends before any
\* change: the stored version, the peer map, the nodes and the host are
\* unchanged, nothing is persisted, SetPeers, the routes and the firewall are
\* not called and no detection is started.
C14_InconclusiveComparison ==
    [][ /\ ( /\ HandlesMessage
             /\ msg'.kind = "host"
             /\ Decoded(msg', msg'.topic)
             /\ ~msg'.data.Empty
             /\ msg'.data.Action = Upgrade
             /\ VersionRank(servers[msg'.topic].Version) = 0 )
            => /\ Len(calls') >= 2
               /\ calls'[2] = "UseVersion"
               /\ IF "useVersion" \in msg'.faults
                  THEN "daemon.HardRestart" \notin Range(calls')
                  ELSE Len(calls') >= 3 /\ calls'[3] = "daemon.HardRestart"
        /\ ( /\ HandlesMessage
             /\ \/ msg'.kind = "peers" /\ DOMAIN nodes # {} /\ Decoded(msg', msg'.topic)
                \/ msg'.kind = "pull" /\ ftick'.ok /\ msg'.topic \in DOMAIN servers
             /\ msg'.data.ServerVersion # ClientVersion
             /\ VersionRank(msg'.data.ServerVersion) = 0 )
            => /\ UNCHANGED <<servers, hostPeers, nodes, host, messageCache>>
               /\ Range(calls') \cap
                    (ReconfigureCalls \cup {"UseVersion", "daemon.HardRestart",
                                            "WriteServerConfig", "WriteNetclientConfig",
                                            "go handleEndpointDetection"}) = {} ]_vars

\* an upgrade was requested by a server whose stored version is no semantic
\* version: the client was upgraded and restarted
C14_Witness ==
    /\ msg.kind = "host"
    /\ msg.data.Action = Upgrade
    /\ msg.topic \in DOMAIN servers
    /\ servers[msg.topic].Version = "dev"
    /\ calls = <<"clearRetainedMsg", "UseVersion", "daemon.HardRestart">>

(***************************************************************************)
(* Properties of HostUpdate after the dispatch (SpecHost)                  *)
(***************************************************************************)
\* C15: in HostUpdate the interface is closed and recreated only when the
\* host config was written, a reset was requested and no restart was
\* requested; a failed write of the host config ends the message without a
\* daemon restart and without a reset; a requested restart is made instead
\* of a requested reset.
C15_ResetOnlyAfterWriteAndNoRestart ==
    msg.kind = "host"
        => /\ Range(calls) \cap ResetInterfaceCalls # {}
                => /\ "WriteNetclientConfig" \in Range(calls)
                   /\ "writeNetclient" \notin msg.faults
                   /\ "resetInterface" \in msg.flags
                   /\ "restartDaemon" \notin msg.flags
           /\ ("WriteNetclientConfig" \in Range(calls) /\ "writeNetclient" \in msg.faults)
                => Range(calls) \cap (ResetInterfaceCalls \cup {"daemon.Restart"}) = {}
           /\ ("WriteNetclientConfig" \in Range(calls) /\ "writeNetclient" \notin msg.faults
                  /\ "restartDaemon" \in msg.flags)
                => /\ calls[Len(calls)] = "daemon.Restart"
                   /\ Range(calls) \cap ResetInterfaceCalls = {}
           /\ ("WriteNetclientConfig" \in Range(calls) /\ "writeNetclient" \notin msg.faults
                  /\ "resetInterface" \in msg.flags /\ "restartDaemon" \notin msg.flags)
                => {"nc.Close", "nc.Create", "nc.Configure"} \subseteq Range(calls)

\* config.UpdateHost asked for a reset and for a restart: the retained
\* message was cleared and the daemon restarted, and the interface was left
\* alone
C15_Witness ==
    /\ msg.kind = "host"
    /\ msg.data.Action = UpdateHost
    /\ {"resetInterface", "restartDaemon", "clearMsg"} \subseteq msg.flags
    /\ calls = <<"config.UpdateHost", "WriteNetclientConfig", "clearRetainedMsg",
                 "daemon.Restart">>

(***************************************************************************)
(* Properties of NodeUpdate after the cache check (SpecNode)               *)
(***************************************************************************)
\* C16: NodeUpdate publishes DONE only as its last step, after UpdateNodeMap
\* and a Configure that succeeded, and only when the interface settings of
\* the node changed or the action was force-update; a delete updates no
\* node, configures nothing and publishes nothing; a Configure that fails
\* ends the message without the signal.
C16_DoneOnlyAfterConfigure ==
    [][ msg'.kind = "node"
        => /\ "publishSignal DONE" \in Range(calls')
                => /\ calls' = <<"UpdateNodeMap", "WriteNodeConfig", "Configure",
                                 "publishSignal DONE">>
                   /\ "configure" \notin msg'.faults
                   /\ msg'.topic \in DOMAIN nodes'
                   /\ nodes'[msg'.topic] = [msg'.data EXCEPT !.Action = NODE_NOOP]
                   /\ \/ GetNode(msg'.topic).Settings # msg'.data.Settings
                      \/ msg'.data.Action = NODE_FORCE_UPDATE
           /\ msg'.data.Action = NODE_DELETE
                => /\ Range(calls') \cap {"UpdateNodeMap", "WriteNodeConfig", "Configure",
                                          "publishSignal DONE"} = {}
                   /\ \A n \in DOMAIN nodes' : n \in DOMAIN nodes /\ nodes'[n] = nodes[n]
           /\ "configure" \in msg'.faults => "publishSignal DONE" \notin Range(calls')
           /\ ( /\ "Configure" \in Range(calls')
                /\ "configure" \notin msg'.faults
                /\ \/ GetNode(msg'.topic).Settings # msg'.data.Settings
                   \/ msg'.data.Action = NODE_FORCE_UPDATE )
                => "publishSignal DONE" \in Range(calls') ]_vars

\* a force-update that changed no setting of the node was applied and DONE
\* was published for it
C16_Witness ==
    /\ msg.kind = "node"
    /\ msg.data.Action = NODE_FORCE_UPDATE
    /\ calls = <<"UpdateNodeMap", "WriteNodeConfig", "Configure", "publishSignal DONE">>
    /\ "writeNode" \in msg.faults
    /\ nodes[msg.topic].Action = NODE_NOOP

(***************************************************************************)
(* C17: endpoint detection never blocks the application of a               *)
(* configuration.  After the go statement of a peer update or of a         *)
(* snapshot application the firewall step can always be taken, whatever    *)
(* detections and probe tasks are pending; it is taken and the handler     *)
(* returns, although nothing is assumed of the progress of the detection   *)
(* and of the probe tasks; and every running probe task can end, whatever  *)
(* the handler and the other probe tasks do.                               *)
(***************************************************************************)
C17_DetectionNeverBlocks ==
    /\ [](hpc = "fw" => ENABLED PeerUpdateFirewall)
    /\ [](\A t \in probes : ENABLED ProbeEnds(t, FALSE))
    /\ ((hpc = "fw") ~> (hpc = "idle" /\ calls # <<>>
                            /\ calls[Len(calls)] \in {"firewall.SetEgressRoutes",
                                                      "firewall.DeleteEgressGwRoutes"}))

\* the handler of a snapshot has returned, the firewall step done, while two
\* probe tasks it started are still running
C17_Witness ==
    /\ hpc = "idle"
    /\ msg.kind = "pull"
    /\ calls # <<>>
    /\ calls[Len(calls)] = "firewall.SetEgressRoutes"
    /\ Cardinality(probes) >= 2

(***************************************************************************)
(* C18: once the context of mqFallback is cancelled the reconciler         *)
(* eventually stops its ticker and returns; a pull that is in flight is    *)
(* left only by its own return, cancelled or not; and once the reconciler  *)
(* has taken the case of ctx.Done() it stays stopped, its ticker off, and  *)
(* starts no pull.                                                         *)
(***************************************************************************)
C18_CancellationStops ==
    /\ (ctxDone ~> (fpc = "stopped" /\ ~tickerOn))
    /\ [][fpc = "pulling" /\ fpc' # "pulling" => fpc' = "select" /\ ftick'.step = "pull"]_vars
    /\ [][fpc = "stopped" => fpc' = "stopped" /\ ~tickerOn' /\ ftick'.pulls = 0]_vars

\* the reconciler has stopped after a cancellation, its ticker off, after a
\* pull of its own had returned and left the connection closed
C18_Witness ==
    /\ ctxDone
    /\ fpc = "stopped"
    /\ ~tickerOn
    /\ msg.kind = "pull"
    /\ Mqclient = "closed"

(***************************************************************************)
(* C19: the endpoint AddNewPeer resolves and registers has the port the    *)
(* peer advertises when the peer is an attached external client and the    *)
(* proxy's well-known port otherwise, and the IP of the relay target when  *)
(* the peer is relayed and the IP the peer advertises otherwise, whatever  *)
(* the flags isRelayed, isExtClient and isAttachedExtClient are.           *)
(***************************************************************************)
C19_EffectiveEndpoint ==
    (pcall.op = "AddNewPeer" /\ pcall.ret = "ok")
        => LET c  == GetPeer(pcall.network, pcall.peer.PublicKey)
               ep == c.Config.PeerEndpoint
           IN  /\ ep.Port = IF c.IsAttachedExtClient THEN pcall.peer.Endpoint.Port
                            ELSE NmProxyPort
               /\ To4(ep.IP) = To4(IF c.IsRelayed THEN Val(c.RelayedEndpoint).IP
                                   ELSE pcall.peer.Endpoint.IP)

(***************************************************************************)
(* C20: of two handlers run at once on node updates with the same payload  *)
(* for the same network, at most one gets past the cache check to store    *)
(* the node and configure the interface.                                   *)
(***************************************************************************)
C20_AtMostOnePasses ==
    Cardinality({h \in RaceHandlers : rpc[h] \in {"apply", "done"}}) <= 1

\* a node update that got past the cache check and whose application failed:
\* LeaveNetwork failed for a delete, or Configure failed
FailedNodeUpdate ==
    /\ msg.kind = "node"
    /\ Decoded(msg, ServerOfNetwork(msg.topic))
    /\ calls # <<>>
    /\ \/ msg.data.Action = NODE_DELETE /\ "leave" \in msg.faults
       \/ msg.data.Action # NODE_DELETE /\ "configure" \in msg.faults

(***************************************************************************)
(* C21: NodeUpdate puts the payload into the cache before it applies it.   *)
(* After a node update whose Configure, or whose LeaveNetwork for a        *)
(* delete, failed, the cache holds the payload of that update; and when    *)
(* the same payload is delivered again and decoded, it is dropped by the   *)
(* cache check: nothing is called, so the configuration is not tried       *)
(* again, and the node map, the server records and the cache stay as they  *)
(* are.                                                                    *)
(***************************************************************************)
C21_CachedBeforeApplied ==
    /\ [](FailedNodeUpdate => messageCache[msg.data.Network] = msg.data)
    /\ [][ ( /\ FailedNodeUpdate
             /\ msg'.kind = "node"
             /\ msg'.data = msg.data
             /\ Decoded(msg', GetNode(msg'.topic).Server) )
           => /\ calls' = <<>>
              /\ UNCHANGED <<nodes, servers, messageCache>> ]_vars

\* the redelivery of a delete was dropped by the cache check although the host
\* is still in the network: the leave of the first delivery had failed
C21_Witness ==
    /\ msg.kind = "node"
    /\ msg.data.Action = NODE_DELETE
    /\ Decoded(msg, GetNode(msg.topic).Server)
    /\ calls = <<>>
    /\ messageCache[msg.data.Network] = msg.data
    /\ msg.topic \in DOMAIN nodes

=============================================================================
